---- MODULE Spec2Model ----
(***************************************************************************)
(* A model of the JDS6600 controller: the execution engine                 *)
(* (jds_controller/runner.py, run_sequence), its interruptible sleep       *)
(* (jds_controller/util.py, sleep_with_control) and the part of the GUI    *)
(* (jds_controller/gui/app.py, resume_store.py) that starts, stops and     *)
(* persists a run.                                                         *)
(*                                                                         *)
(* Time is counted in slices: one slice is one time.sleep(0.05) of         *)
(* sleep_with_control.  Durations (seconds, on_wait, remaining, ...) are   *)
(* whole numbers of slices, frequencies are whole numbers of Hz.           *)
(* An optional value is a sequence: <<>> is None, <<v>> is the value v.    *)
(* One channel is selected (default_channel = "1"), so a frequency update  *)
(* is one set_frequency call.                                              *)
(***************************************************************************)
EXTENDS Integers, Sequences, FiniteSets, TLC

VARIABLES
  steps,              \* run_sequence(steps, ...): the compiled step sequence
  resume,             \* run_sequence(resume=...): the checkpoint to resume from
  dry_run,            \* run_sequence(dry_run=...)
  fixed_wait_seconds, \* run_sequence(fixed_wait_seconds=...), optional
  paused,             \* RunnerState.paused
  stopped,            \* RunnerState.stopped
  skip_wait,          \* RunnerState.skip_wait
  resume_checkpoint,  \* RunnerState.resume_checkpoint
  pc,                 \* the engine's position in run_sequence
  i,                  \* the index of the step being executed
  resume_within,      \* run_sequence's local resume_within (None once consumed)
  loc,                \* the locals of the step being executed
  fg,                 \* the device object: none, created, connected, closed
  ret,                \* how run_sequence ended: none, return, raise
  rc,                 \* the code returned (0 or 4) once ret = "return"
  raised,             \* what raised the exception that ended the run
  tick_wait_updates,  \* run_sequence(tick_wait_updates=...)
  log,                \* history: the steps whose work the engine began, in order
  mon,                \* history: monitors of device calls and statuses
  app                 \* the GUI around the run (App and its ResumeStore), if any

\* What run_sequence is given and what it never touches.
inputVars == <<steps, resume, dry_run, fixed_wait_seconds, tick_wait_updates, app>>
flagVars == <<paused, stopped, skip_wait>>
engVars == <<pc, i, resume_within, loc, fg, ret, rc, raised>>
vars == <<steps, resume, dry_run, fixed_wait_seconds, paused, stopped, skip_wait,
          resume_checkpoint, pc, i, resume_within, loc, fg, ret, rc, raised,
          tick_wait_updates, log, mon, app>>

----------------------------------------------------------------------------
(* Bounds of the model. *)

\* The longest step sequence run.
MaxSteps == 2
\* How many sweep cycles of a repeat=true ModStep are followed.
MaxModCycles == 2

None == [kind |-> "None"]
NoneNum == <<>>
Some(v) == <<v>>
IsNone(o) == o = <<>>
Val(o) == o[1]
Max(a, b) == IF a >= b THEN a ELSE b
Min(a, b) == IF a <= b THEN a ELSE b
Abs(a) == IF a >= 0 THEN a ELSE -a

----------------------------------------------------------------------------
(* Steps (commands.py). *)

FreqStep(hz) == [kind |-> "FreqStep", hz |-> hz]
WaitStep(seconds) == [kind |-> "WaitStep", seconds |-> seconds]
StopStep == [kind |-> "StopStep"]
CycleRangeSpec(a, b, s) == [range |-> TRUE, start_hz |-> a, end_hz |-> b, step_hz |-> s]
Literal(hz) == [range |-> FALSE, hz |-> hz]
CycleStep(items, on, off) ==
  [kind |-> "CycleStep", items |-> items, on_wait |-> on, off_wait |-> off,
   pause_hz |-> 0, adaptive_voltage |-> FALSE]
\* A mod step sweeping 10..20 Hz; time_s and update_ms are in slices.
ModStepOf(direction, repeat, time_s, update_ms) ==
  [kind |-> "ModStep", start_hz |-> 10, end_hz |-> 20, time_s |-> time_s,
   update_ms |-> update_ms, direction |-> direction, adaptive_voltage |-> FALSE,
   repeat |-> repeat]
ModStep(direction, repeat) == ModStepOf(direction, repeat, 2, 1)

----------------------------------------------------------------------------
(* Pure helpers of runner.py. *)

\* Python's round(n / d) for d > 0: to the nearest integer, ties to the even one.
RoundHalfEven(n, d) ==
  LET q == n \div d
      r == n - q * d
  IN  IF 2 * r < d THEN q
      ELSE IF 2 * r > d THEN q + 1
      ELSE IF q % 2 = 0 THEN q ELSE q + 1

\* _cycle_range_count without the end point.
_cycle_range_count_Exclusive(spec) ==
  LET span == spec.end_hz - spec.start_hz
  IN  IF spec.step_hz = 0 THEN 0
      ELSE IF span = 0 THEN 1
      ELSE Abs(span) \div Abs(spec.step_hz)

\* The number of points of an inclusive range: floor(span / step + 1e-12) + 1 with
\* the step's sign turned to the span's; 0 for a zero step, 1 for a zero span.
_cycle_range_count(spec) ==
  LET span == spec.end_hz - spec.start_hz
  IN  IF spec.step_hz = 0 THEN 0
      ELSE IF span = 0 THEN 1
      ELSE (Abs(span) \div Abs(spec.step_hz)) + 1

\* The frequency _iter_cycle_range yields at index k: start + step * k, clamped to
\* end when it passes it in the step's direction.
_iter_cycle_range_freq(spec, k) ==
  LET freq == spec.start_hz + spec.step_hz * k
  IN  IF spec.step_hz > 0 /\ freq > spec.end_hz THEN spec.end_hz
      ELSE IF spec.step_hz < 0 /\ freq < spec.end_hz THEN spec.end_hz
      ELSE freq

\* The indices _iter_cycle_range yields from start_k (negative start_k counts as 0).
_iter_cycle_range(spec, start_k) ==
  LET n == _cycle_range_count(spec)
  IN  IF n <= 0 \/ spec.step_hz = 0 \/ Max(0, start_k) >= n THEN {}
      ELSE Max(0, start_k) .. (n - 1)

\* Python values as they may stand in a resume mapping that run_sequence did not write:
\* an int, a float (in halves), a string (lit is <<n>> when its text is the decimal
\* literal of the integer n, e.g. "1", and <<>> otherwise, e.g. "x" or "1.5"), and
\* "None", "list" or "absent" (no entry under the key).
PyInt(n) == [py |-> "int", n |-> n]
PyFloat(halves) == [py |-> "float", halves |-> halves]
PyStr(lit) == [py |-> "str", lit |-> lit]
PyOther(t) == [py |-> t]

\* int(resume.get(key, default)) (runner.py:244-245): <<n>>, or <<>> when int raises
\* (TypeError, ValueError). A float is truncated toward zero; a string is parsed.
py_int(x, default) ==
  CASE x.py = "absent" -> <<default>>
    [] x.py = "int" -> <<x.n>>
    [] x.py = "float" -> <<IF x.halves >= 0 THEN x.halves \div 2 ELSE -((-x.halves) \div 2)>>
    [] x.py = "str" -> x.lit
    [] OTHER -> <<>>

\* isinstance(w, dict) for the within entry: runner.py:247.
IsWithinDict(w) == w.kind \notin {"None", "list", "str"}

\* run_sequence's reading of its resume argument (runner.py:240-251). kind "dict" is a
\* mapping whose v and step_index are ints, as _set_checkpoint writes them; kind "obj"
\* is a mapping with any values; every other kind is not a mapping.
ResumeIndexOf(r) ==
  CASE r.kind = "dict" -> IF r.v = 1 THEN Max(0, r.step_index) ELSE 0
    [] r.kind = "obj" ->
         LET v == py_int(r.v, 1)
             n == py_int(r.step_index, 0)
         IN  IF v = <<>> THEN 0
             ELSE IF v[1] # 1 THEN 0
             ELSE IF n = <<>> THEN 0
             ELSE Max(0, n[1])
    [] OTHER -> 0
ResumeWithinOf(r) ==
  CASE r.kind = "dict" -> IF r.v = 1 THEN r.within ELSE None
    [] r.kind = "obj" ->
         LET v == py_int(r.v, 1)
             n == py_int(r.step_index, 0)
         IN  IF v = <<>> \/ n = <<>> THEN None
             ELSE IF v[1] # 1 THEN None
             ELSE IF IsWithinDict(r.within) THEN r.within ELSE None
    [] OTHER -> None

resume_step_index == ResumeIndexOf(resume)
resume_within_init == ResumeWithinOf(resume)

\* _set_checkpoint leaving state.resume_checkpoint as it is when there is no
\* on_checkpoint.
_set_checkpoint_NeedsObserver(step_index, step, within) ==
  IF app.kind = "Observer" /\ ~app.on_checkpoint THEN resume_checkpoint
  ELSE [kind |-> "dict", v |-> 1, step_index |-> step_index, step_kind |-> step.kind,
        within |-> within]

\* The dict _set_checkpoint stores in state.resume_checkpoint.
_set_checkpoint(step_index, step, within) ==
  [kind |-> "dict", v |-> 1, step_index |-> step_index, step_kind |-> step.kind,
   within |-> within]

\* _eff_wait_seconds of a CycleStep: 0 for a wait that is absent or <= 0, else the
\* fixed-wait override when one is set, else the wait.
_eff_wait_seconds(w) ==
  IF IsNone(w) THEN 0
  ELSE IF Val(w) <= 0 THEN 0
  ELSE IF ~IsNone(fixed_wait_seconds) THEN Max(0, Val(fixed_wait_seconds))
  ELSE Max(0, Val(w))

\* 0.001 s in the unit of the step's time_s and update_ms: the steps whose times
\* are whole slices carry no ms field (0.001 s is not above one unit there), the
\* steps timed in fractions of a millisecond carry the number of units in 0.001 s.
Millisecond(step) == IF "ms" \in DOMAIN step THEN step.ms ELSE 1

\* leg_seconds = max(0.001, float(step.time_s)).
leg_seconds(step) == Max(Millisecond(step), step.time_s)

\* sweep's update_interval = max(0.001, update_ms / 1000).
update_interval(step) == Max(Millisecond(step), step.update_ms)

\* sweep's number of updates per leg: max(1, round(leg_seconds / update_interval)).
sweep_updates(step) == Max(1, RoundHalfEven(leg_seconds(step), update_interval(step)))

\* _calc_resume_start_k truncating instead of rounding.
_calc_resume_start_k_Truncates(saved_k, saved_updates, new_updates) ==
  IF new_updates <= 0 THEN 0
  ELSE LET k2 == (saved_k * new_updates) \div Max(1, saved_updates)
       IN  IF k2 < 0 THEN 0 ELSE IF k2 > new_updates THEN new_updates ELSE k2

\* _calc_resume_start_k: the saved position rescaled to the new number of updates.
_calc_resume_start_k(saved_k, saved_updates, new_updates) ==
  IF new_updates <= 0 THEN 0
  ELSE LET k2 == RoundHalfEven(saved_k * new_updates, Max(1, saved_updates))
       IN  IF k2 < 0 THEN 0 ELSE IF k2 > new_updates THEN new_updates ELSE k2

----------------------------------------------------------------------------
(* The state after run_sequence's preamble (runner.py:235-303). *)

\* tick_interval of sleep_with_control in slices: 0.25 s of 0.05 s slices.
TickSlices == 5

LocInit ==
  [slRem |-> 0, sinceTick |-> 0,
   item_i |-> 0, sub_k |-> 0, sub_n |-> 0, in_range |-> FALSE, hold |-> "",
   start_item_i |-> 0, start_sub_k |-> 0, resume_phase |-> "", resume_remaining |-> NoneNum,
   phase |-> "", rem |-> NoneNum,
   \* history of the CycleStep: the last point visited, how many were visited, and
   \* the holds of that point begun so far, and what the engine has done for that
   \* point, in order: "checkpoint", "frequency", "on", "pause", "off"
   last_point |-> <<>>, points |-> 0, held |-> {}, acts |-> <<>>,
   leg |-> "", k |-> 0, apply_resume |-> FALSE, first_cycle |-> FALSE, resume_mod |-> None,
   result |-> "ok", cycles |-> 0,
   \* history of the sweep leg: the index it started at, the frequency updates issued
   \* and the delays begun in it, and the frequency of the last update
   start_k |-> 0, n_updates |-> 0, n_delays |-> 0, freq |-> <<>>,
   \* history: the device calls of the last frequency update of a cycle point or of
   \* a sweep index
   calls |-> <<>>]

MonInit ==
  [stopAt |-> "", stopObserved |-> FALSE, setAfterStop |-> FALSE, anySet |-> FALSE,
   closeN |-> 0, setAfterClose |-> FALSE, swallowed |-> {}, lastStatus |-> "", doneN |-> 0,
   progressed |-> -1, ckCycle |-> 0, setStep |-> -1,
   \* the last set_channels call: its arguments, the index of the step that issued
   \* it, and whether one was issued after stopped had been observed
   set_channels |-> <<>>, channelsStep |-> -1, channelsAfterStop |-> FALSE,
   \* was a setter called after a setter call had raised
   setAfterRaise |-> FALSE,
   \* the skip request that is followed (SkipOnce): was it made, and how many holds
   \* and ModSteps the engine has ended or left out on finding skip_wait set since
   skipOnce |-> FALSE, cut |-> 0,
   \* the setter calls of the last static-settings pass that made any, and the index
   \* of its step
   static |-> <<>>, staticStep |-> -1,
   \* the checkpoints of a run whose observer is followed (Observer): a bit that
   \* every call of _set_checkpoint flips and the dict of the last call; a bit that
   \* every call of on_checkpoint flips, the dict it was last given and whether it
   \* was called at all
   emitBit |-> FALSE, lastEmitted |-> <<>>,
   giveBit |-> FALSE, lastGiven |-> <<>>, notified |-> FALSE,
   \* the pause request that is followed (PauseOnce): was it made, and how many
   \* steps, cycle points and sweep updates the engine has begun since
   pauseWatch |-> FALSE, work |-> [steps |-> 0, points |-> 0, updates |-> 0],
   \* has the Pause button of the GUI cleared paused in this run
   unpaused |-> FALSE,
   \* the durations asked of sleep_with_control in a run whose sleeps are timed
   \* (Clock), summed
   slept |-> 0]

\* run_sequence called without the GUI (src/run_cli.py).
NoApp == [kind |-> "None"]

EngineInit ==
  /\ paused = FALSE /\ stopped = FALSE /\ skip_wait = FALSE
  /\ resume_checkpoint = None
  /\ pc = "start" /\ i = resume_step_index /\ resume_within = resume_within_init
  /\ loc = LocInit
  /\ fg = "none" /\ ret = "none" /\ rc = -1 /\ raised = "none"
  /\ log = <<>> /\ mon = MonInit

----------------------------------------------------------------------------
(* Effects shared by the engine's actions. *)

\* The try block of run_sequence is executing.
Running == pc \notin {"finally", "returned"}

\* run_sequence called by a caller that times its sleeps: nothing of the code, the
\* run whose calls of sleep_with_control are followed.
Clock == [kind |-> "Clock"]

\* util.py:96: sleep_with_control(seconds) sleeps for max(0.0, float(seconds)).
Slept(m, seconds) ==
  IF app.kind = "Clock" THEN [m EXCEPT !.slept = @ + Max(0, seconds)] ELSE m

\* A step, cycle point or sweep update that the engine begins after the followed
\* pause request.
Work(m, unit) == IF m.pauseWatch THEN [m EXCEPT !.work[unit] = @ + 1] ELSE m

\* status(msg): on_status(msg), unguarded.
Status(m, what) ==
  LET n == [m EXCEPT !.lastStatus = what, !.doneN = IF what = "Done." THEN @ + 1 ELSE @]
  IN  IF what = "step" THEN Work(n, "steps") ELSE n

\* A device setter call (set_frequency, set_amplitude, set_channels, set_<option>).
Setter(m) ==
  [m EXCEPT !.anySet = TRUE, !.setStep = i,
            !.setAfterStop = @ \/ m.stopObserved,
            !.setAfterClose = @ \/ (m.closeN > 0),
            !.setAfterRaise = @ \/ (raised = "setter")]

\* channels_requested with False for a channel the options do not name.
channels_requested_OffByDefault(step) ==
  IF "options" \in DOMAIN step /\ "channels" \in DOMAIN step.options
    THEN LET c == step.options.channels
         IN  <<[channel1 |-> IF "channel1" \in DOMAIN c THEN c.channel1
                             ELSE IF "ch1" \in DOMAIN c THEN c.ch1 ELSE FALSE,
                channel2 |-> IF "channel2" \in DOMAIN c THEN c.channel2
                             ELSE IF "ch2" \in DOMAIN c THEN c.ch2 ELSE FALSE]>>
    ELSE <<>>

\* runner.py:351-356, 385-390, 629-634: the arguments of the set_channels call that
\* the options of a FreqStep, CycleStep or ModStep ask for, <<>> when they ask for
\* none: bool(c.get("channel1", c.get("ch1", True))) and the same for channel 2.
channels_requested(step) ==
  IF "options" \in DOMAIN step /\ "channels" \in DOMAIN step.options
    THEN LET c == step.options.channels
         IN  <<[channel1 |-> IF "channel1" \in DOMAIN c THEN c.channel1
                             ELSE IF "ch1" \in DOMAIN c THEN c.ch1 ELSE TRUE,
                channel2 |-> IF "channel2" \in DOMAIN c THEN c.channel2
                             ELSE IF "ch2" \in DOMAIN c THEN c.ch2 ELSE TRUE]>>
    ELSE <<>>

\* fg.set_channels(channel1=..., channel2=...): a setter call.
set_channels(m, args) ==
  Setter([m EXCEPT !.set_channels = <<args>>, !.channelsStep = i,
                   !.channelsAfterStop = @ \/ m.stopObserved])

\* The set_channels call at the head of a FreqStep, CycleStep or ModStep, when its
\* options ask for one.
Channels(m, step) ==
  IF channels_requested(step) = <<>> THEN m ELSE set_channels(m, channels_requested(step)[1])

\* The engine ends or leaves out a hold, or ends a ModStep, for the skip request that
\* is followed, when seen holds.
Cut(m, seen) == IF seen /\ m.skipOnce THEN [m EXCEPT !.cut = @ + 1] ELSE m

\* The options of a step; a step compiled without options has none.
OptionsOf(step) == IF "options" \in DOMAIN step THEN step.options ELSE <<>>

\* runner.py:30-44: _channels_from_selector with default_channel = "1".
_channels_from_selector(opts) ==
  LET sel == IF "channel" \in DOMAIN opts THEN opts.channel ELSE "1"
  IN  CASE sel \in {"1", "ch1", "channel1"} -> <<1>>
        [] sel \in {"2", "ch2", "channel2"} -> <<2>>
        [] OTHER -> <<1, 2>>

\* runner.py:392-396, 636-640: the channels that have a dict of their own.
per_ch(opts) ==
  (IF "ch1" \in DOMAIN opts THEN <<1>> ELSE <<>>)
    \o (IF "ch2" \in DOMAIN opts THEN <<2>> ELSE <<>>)

\* runner.py:398, 642: cycle_channels / sweep_channels.
step_channels(step) ==
  IF per_ch(OptionsOf(step)) # <<>> THEN per_ch(OptionsOf(step))
  ELSE _channels_from_selector(OptionsOf(step))

\* _apply_static sending the amplitude of the options whatever adaptive_voltage is.
_apply_static_KeepsAmplitude(ch, st, adaptive_voltage) ==
  (IF "waveform" \in DOMAIN st THEN <<[call |-> "set_waveform", channel |-> ch]>> ELSE <<>>)
    \o (IF "amplitude" \in DOMAIN st
          THEN <<[call |-> "set_amplitude", channel |-> ch]>> ELSE <<>>)

\* runner.py:401-407, 656-661 with _apply_channel_settings (99-106): the setter calls
\* for the settings st on channel ch; the amplitude is left out when adaptive_voltage
\* is true. The settings of the model are waveform and amplitude.
_apply_static(ch, st, adaptive_voltage) ==
  (IF "waveform" \in DOMAIN st THEN <<[call |-> "set_waveform", channel |-> ch]>> ELSE <<>>)
    \o (IF "amplitude" \in DOMAIN st /\ ~adaptive_voltage
          THEN <<[call |-> "set_amplitude", channel |-> ch]>> ELSE <<>>)

\* runner.py:409-423, 663-674: the static-settings pass of a CycleStep or ModStep:
\* the dict of each channel that has one, else the shared options on every channel
\* of the step.
static_calls(step) ==
  LET opts == OptionsOf(step)
      chs == step_channels(step)
      of(n) == IF per_ch(opts) # <<>>
                 THEN _apply_static(chs[n], IF chs[n] = 1 THEN opts.ch1 ELSE opts.ch2,
                                    step.adaptive_voltage)
                 ELSE _apply_static(chs[n], opts, step.adaptive_voltage)
  IN  IF Len(chs) = 1 THEN of(1) ELSE of(1) \o of(2)

\* The static-settings pass as device calls, when it makes any.
Static(m, step) ==
  IF static_calls(step) = <<>> THEN m
  ELSE Setter([m EXCEPT !.static = static_calls(step), !.staticStep = i])

\* runner.py:136-155: _set_frequency_and_adaptive_voltage: set_frequency on every
\* channel, then, with adaptive_voltage, set_amplitude on every channel.
_set_frequency_and_adaptive_voltage(channels, adaptive_voltage) ==
  [n \in 1..Len(channels) |-> [call |-> "set_frequency", channel |-> channels[n]]]
    \o (IF adaptive_voltage
          THEN [n \in 1..Len(channels) |-> [call |-> "set_amplitude", channel |-> channels[n]]]
          ELSE <<>>)

\* runner.py:587-590: pause_hz is written on every channel of the CycleStep.
pause_write(step) ==
  [n \in 1..Len(step_channels(step)) |->
     [call |-> "set_frequency", channel |-> step_channels(step)[n]]]

\* run_sequence's on_checkpoint argument: a callable, or None.
Observer(on_checkpoint) == [kind |-> "Observer", on_checkpoint |-> on_checkpoint]

\* The checkpoint dict that a call of _set_checkpoint builds (runner.py:258-265).
CheckpointDict(step_index, step, within) ==
  [kind |-> "dict", v |-> 1, step_index |-> step_index, step_kind |-> step.kind,
   within |-> within]

\* runner.py:272-282: what becomes of a call of _set_checkpoint with outcome f: f is
\* "ok" (on_checkpoint, if there is one, returns), "on_checkpoint" (it raises) or
\* "throttled" (there is one, it was called before, and less than 0.2 s have passed
\* since); any other f in among is the outcome of a call made after it.
CheckpointOutcome(f, among) ==
  IF app.kind # "Observer" THEN f \in among
  ELSE IF f = "throttled" THEN app.on_checkpoint /\ mon.notified
  ELSE f \in among /\ (f = "on_checkpoint" => app.on_checkpoint)

\* The call of _set_checkpoint as the followed observer sees it.
Notify(m, c, f) ==
  IF app.kind # "Observer" THEN m
  ELSE LET given == app.on_checkpoint /\ f # "throttled"
       IN  [m EXCEPT !.emitBit = ~@, !.lastEmitted = <<c>>,
                     !.giveBit = IF given THEN ~@ ELSE @,
                     !.lastGiven = IF given THEN <<c>> ELSE @,
                     !.notified = @ \/ given]

\* A read of state.stopped by the engine that found it set.
Observed(m, seen) == [m EXCEPT !.stopObserved = @ \/ seen]

\* An exception that a try block of the engine swallows.
Swallow(m, f) == IF f \in {"on_checkpoint", "on_device_state", "close"}
                 THEN [m EXCEPT !.swallowed = @ \cup {f}] ELSE m

\* An exception leaves the try block of run_sequence for its finally clause.
Raise(cause) == /\ pc' = "finally" /\ ret' = "raise" /\ raised' = cause /\ rc' = rc

\* return code: leaves the try block for the finally clause.
Return(code) == /\ pc' = "finally" /\ ret' = "return" /\ rc' = code /\ raised' = raised

\* The end of a step's branch: the for loop takes the next index.
NextStep == /\ pc' = "boundary" /\ i' = i + 1 /\ loc' = LocInit

----------------------------------------------------------------------------
(* run_sequence: connection, the step loop's head and its end.              *)
(* Every action takes the outcome f of the calls it makes: "ok", or the     *)
(* call that raises ("ctor", "connect", "setter", "close", or the name of   *)
(* the observer callback).                                                  *)

\* runner.py:304-310: create the device object, connect, report.
Connect(f) ==
  /\ pc = "start"
  /\ IF dry_run
       THEN /\ f = "ok"
            /\ pc' = "boundary"
            /\ UNCHANGED <<fg, ret, rc, raised, mon>>
       ELSE CASE f = "ctor" -> fg' = "none" /\ Raise("ctor") /\ mon' = mon
              [] f = "connect" -> fg' = "created" /\ Raise("connect") /\ mon' = mon
              [] f = "on_status" -> fg' = "connected" /\ Raise("on_status") /\ mon' = mon
              [] f = "ok" -> /\ fg' = "connected"
                             /\ pc' = "boundary"
                             /\ mon' = Status(mon, "Connected")
                             /\ UNCHANGED <<ret, rc, raised>>
              [] OTHER -> FALSE
  /\ UNCHANGED <<inputVars, flagVars, resume_checkpoint, i, resume_within, loc, log>>

\* runner.py:312-316: the for loop takes step i and stores the boundary checkpoint.
BoundaryCheckpoint(f) ==
  /\ pc = "boundary"
  /\ i < Len(steps)
  /\ CheckpointOutcome(f, {"ok", "on_checkpoint"})
  /\ resume_checkpoint' = _set_checkpoint(i, steps[i + 1], None)
  /\ pc' = "stopchk1"
  /\ mon' = Notify(Swallow(mon, f), CheckpointDict(i, steps[i + 1], None), f)
  /\ UNCHANGED <<inputVars, flagVars, i, resume_within, loc, fg, ret, rc, raised, log>>

\* runner.py:318-324 and 333-339: "Stopped.", clear the checkpoint, return 4.
ReturnStopped(f) ==
  CASE f = "on_status" -> /\ Raise("on_status")
                          /\ mon' = Observed(mon, TRUE)
                          /\ UNCHANGED resume_checkpoint
    [] f = "ok" -> /\ Return(4)
                   /\ mon' = Status(Observed(mon, TRUE), "Stopped.")
                   /\ resume_checkpoint' = None
    [] OTHER -> FALSE

\* runner.py:318-327: the first stop check, then on_progress.
StopCheck1(f) ==
  /\ pc = "stopchk1"
  /\ IF stopped
       THEN ReturnStopped(f)
       ELSE CASE f = "on_progress" -> Raise("on_progress") /\ UNCHANGED <<mon, resume_checkpoint>>
              [] f = "ok" -> /\ pc' = "gate"
                             /\ mon' = [mon EXCEPT !.progressed = i]
                             /\ UNCHANGED <<ret, rc, raised, resume_checkpoint>>
              [] OTHER -> FALSE
  /\ UNCHANGED <<inputVars, flagVars, i, resume_within, loc, fg, log>>

\* PauseGate letting the engine through while paused.
PauseGate_DoesNotBlock ==
  /\ pc = "gate"
  /\ pc' = "stopchk2"
  /\ UNCHANGED <<inputVars, flagVars, resume_checkpoint, i, resume_within, loc, fg, ret, rc,
                 raised, log, mon>>

\* The pause gate waiting for paused to be cleared whether or not stopped is set.
PauseGate_IgnoresStop ==
  /\ pc = "gate"
  /\ ~paused
  /\ pc' = "stopchk2"
  /\ UNCHANGED <<inputVars, flagVars, resume_checkpoint, i, resume_within, loc, fg, ret, rc,
                 raised, log, mon>>

\* runner.py:329-331: the pause gate blocks while paused and not stopped.
PauseGate ==
  /\ pc = "gate"
  /\ ~(paused /\ ~stopped)
  /\ pc' = "stopchk2"
  /\ UNCHANGED <<inputVars, flagVars, resume_checkpoint, i, resume_within, loc, fg, ret, rc,
                 raised, log, mon>>

\* runner.py:333-339: the stop check after the pause gate.
StopCheck2(f) ==
  /\ pc = "stopchk2"
  /\ IF stopped
       THEN ReturnStopped(f)
       ELSE /\ f = "ok"
            /\ pc' = "step"
            /\ UNCHANGED <<ret, rc, raised, resume_checkpoint, mon>>
  /\ UNCHANGED <<inputVars, flagVars, i, resume_within, loc, fg, log>>

\* LoopEnd without the clearing of the checkpoint.
LoopEnd_KeepsCheckpoint(f) ==
  /\ pc = "boundary"
  /\ i >= Len(steps)
  /\ CASE f = "on_status" -> Raise("on_status") /\ UNCHANGED <<mon, resume_checkpoint>>
       [] f = "ok" -> /\ Return(0)
                      /\ mon' = Status(mon, "Done.")
                      /\ UNCHANGED resume_checkpoint
       [] OTHER -> FALSE
  /\ UNCHANGED <<inputVars, flagVars, i, resume_within, loc, fg, log>>

\* runner.py:902-907: the loop is over: "Done.", clear the checkpoint, return 0.
LoopEnd(f) ==
  /\ pc = "boundary"
  /\ i >= Len(steps)
  /\ CASE f = "on_status" -> Raise("on_status") /\ UNCHANGED <<mon, resume_checkpoint>>
       [] f = "ok" -> /\ Return(0)
                      /\ mon' = Status(mon, "Done.")
                      /\ resume_checkpoint' = None
       [] OTHER -> FALSE
  /\ UNCHANGED <<inputVars, flagVars, i, resume_within, loc, fg, log>>

\* Finally as a close at the end of the normal path only: nothing closes after a raise.
Finally_OnlyOnReturn(f) ==
  /\ pc = "finally"
  /\ IF fg # "none" /\ ret = "return"
       THEN /\ f \in {"ok", "close"}
            /\ fg' = "closed"
            /\ mon' = Swallow([mon EXCEPT !.closeN = @ + 1], f)
       ELSE /\ f = "ok"
            /\ UNCHANGED <<fg, mon>>
  /\ pc' = "returned"
  /\ UNCHANGED <<inputVars, flagVars, resume_checkpoint, i, resume_within, loc, ret, rc,
                 raised, log>>

\* runner.py:909-914: the finally clause closes the device object if there is one.
Finally(f) ==
  /\ pc = "finally"
  /\ IF fg # "none"
       THEN /\ f \in {"ok", "close"}
            /\ fg' = "closed"
            /\ mon' = Swallow([mon EXCEPT !.closeN = @ + 1], f)
       ELSE /\ f = "ok"
            /\ UNCHANGED <<fg, mon>>
  /\ pc' = "returned"
  /\ UNCHANGED <<inputVars, flagVars, resume_checkpoint, i, resume_within, loc, ret, rc,
                 raised, log>>

----------------------------------------------------------------------------
(* FreqStep, StopStep, WaitStep. *)

Step == steps[i + 1]
AtStep(kind) == pc = "step" /\ Step.kind = kind

\* runner.py:341-373: report, then set the frequency (and the options).
DoFreq(f) ==
  /\ AtStep("FreqStep")
  /\ log' = Append(log, [ev |-> "FreqStep", i |-> i])
  /\ CASE f = "on_status" -> Raise("on_status") /\ UNCHANGED <<i, loc, mon>>
       [] f = "setter" /\ ~dry_run ->
            /\ Raise("setter")
            /\ mon' = Setter(Channels(Status(mon, "step"), Step))
            /\ UNCHANGED <<i, loc>>
       [] f = "ok" -> /\ NextStep
                      /\ mon' = IF dry_run THEN Status(mon, "step")
                                ELSE Setter(Channels(Status(mon, "step"), Step))
                      /\ UNCHANGED <<ret, rc, raised>>
       [] OTHER -> FALSE
  /\ UNCHANGED <<inputVars, flagVars, resume_checkpoint, resume_within, fg>>

\* runner.py:844-848: report, then set_channels(False, False).
DoStop(f) ==
  /\ AtStep("StopStep")
  /\ log' = Append(log, [ev |-> "StopStep", i |-> i])
  /\ CASE f = "on_status" -> Raise("on_status") /\ UNCHANGED <<i, loc, mon>>
       [] f = "setter" /\ ~dry_run ->
            /\ Raise("setter")
            /\ mon' = set_channels(Status(mon, "step"), [channel1 |-> FALSE, channel2 |-> FALSE])
            /\ UNCHANGED <<i, loc>>
       [] f = "ok" -> /\ NextStep
                      /\ mon' = IF dry_run THEN Status(mon, "step")
                                ELSE set_channels(Status(mon, "step"),
                                                  [channel1 |-> FALSE, channel2 |-> FALSE])
                      /\ UNCHANGED <<ret, rc, raised>>
       [] OTHER -> FALSE
  /\ UNCHANGED <<inputVars, flagVars, resume_checkpoint, resume_within, fg>>

\* WaitResumes without the comparison of the step index.
WaitResumes_AnyStep == resume_within.kind = "wait"

\* runner.py:853: does the pending resume position belong to this WaitStep?
WaitResumes == i = resume_step_index /\ resume_within.kind = "wait"

\* wait_eff_seconds with the fixed-wait override taking precedence over the checkpoint.
wait_eff_seconds_OverrideFirst ==
  LET eff1 == IF WaitResumes THEN Max(0, resume_within.remaining) ELSE Step.seconds
      eff0 == IF ~IsNone(fixed_wait_seconds) THEN Val(fixed_wait_seconds) ELSE eff1
  IN  IF skip_wait THEN 0 ELSE eff0

\* runner.py:851-863: the effective duration of the WaitStep.
wait_eff_seconds ==
  LET eff0 == IF ~IsNone(fixed_wait_seconds) THEN Val(fixed_wait_seconds) ELSE Step.seconds
      eff1 == IF WaitResumes THEN Max(0, resume_within.remaining) ELSE eff0
  IN  IF skip_wait THEN 0 ELSE eff1

\* WaitBegin going on to the sleep in a dry run as well.
WaitBegin_SleepsDry(f) ==
  /\ AtStep("WaitStep")
  /\ resume_within' = IF WaitResumes THEN None ELSE resume_within
  /\ skip_wait' = FALSE
  /\ log' = Append(log, [ev |-> "WaitStep", i |-> i])
  /\ CASE f = "on_status" -> Raise("on_status") /\ UNCHANGED <<i, loc, mon>>
       [] f = "ok" -> /\ mon' = Slept(Cut(Status(mon, "step"), skip_wait),
                                      IF dry_run THEN 0 ELSE wait_eff_seconds)
                      /\ IF FALSE
                           THEN NextStep
                           ELSE /\ pc' = "wait_sleep"
                                /\ loc' = [loc EXCEPT !.slRem = wait_eff_seconds,
                                                      !.sinceTick = TickSlices]
                                /\ i' = i
                      /\ UNCHANGED <<ret, rc, raised>>
       [] OTHER -> FALSE
  /\ UNCHANGED <<inputVars, paused, stopped, resume_checkpoint, fg>>

\* runner.py:850-895: the duration, the report, then the interruptible sleep begins.
WaitBegin(f) ==
  /\ AtStep("WaitStep")
  /\ resume_within' = IF WaitResumes THEN None ELSE resume_within
  /\ skip_wait' = FALSE
  /\ log' = Append(log, [ev |-> "WaitStep", i |-> i])
  /\ CASE f = "on_status" -> Raise("on_status") /\ UNCHANGED <<i, loc, mon>>
       [] f = "ok" -> /\ mon' = Slept(Cut(Status(mon, "step"), skip_wait),
                                      IF dry_run THEN 0 ELSE wait_eff_seconds)
                      /\ IF dry_run
                           THEN NextStep
                           ELSE /\ pc' = "wait_sleep"
                                /\ loc' = [loc EXCEPT !.slRem = wait_eff_seconds,
                                                      !.sinceTick = TickSlices]
                                /\ i' = i
                      /\ UNCHANGED <<ret, rc, raised>>
       [] OTHER -> FALSE
  /\ UNCHANGED <<inputVars, paused, stopped, resume_checkpoint, fg>>

\* runner.py:896-898: a skip pressed during the wait is consumed.
WaitAfter ==
  /\ pc = "wait_after"
  /\ skip_wait' = FALSE
  /\ NextStep
  /\ UNCHANGED <<inputVars, paused, stopped, resume_checkpoint, resume_within, fg, ret, rc,
                 raised, log, mon>>

----------------------------------------------------------------------------
(* sleep_with_control (util.py:80-116), one iteration of its loop.          *)

SleepPcs == {"wait_sleep", "cy_sleep", "mod_sleep"}

\* What one iteration of the loop does: util.py:99-116.
sleep_iteration ==
  IF stopped THEN "stopped"
  ELSE IF skip_wait THEN "skip"
  ELSE IF paused THEN "paused"
  ELSE IF loc.slRem <= 0 THEN "elapsed"
  ELSE "slice"

\* Does this sleep have an on_tick (runner.py:488-495, 785-790, 888-895)?
HasTick == pc \in {"wait_sleep", "cy_sleep"}

\* Does this iteration call on_tick (util.py:109-115)?
Ticks(it) ==
  HasTick /\ (it = "elapsed" \/ (it = "slice" /\ loc.sinceTick >= TickSlices))

\* The remaining time handed to on_tick.
TickRem(it) == IF it = "elapsed" THEN 0 ELSE Max(0, loc.slRem)

\* The within position that on_tick stores (runner.py:467-476, 868-870).
TickWithin(it) ==
  IF pc = "wait_sleep"
    THEN [kind |-> "wait", remaining |-> TickRem(it)]
    ELSE [kind |-> "cycle_wait", phase |-> loc.hold, item_i |-> loc.item_i,
          sub_k |-> loc.sub_k, sub_n |-> loc.sub_n, remaining |-> TickRem(it)]

AfterSleep == CASE pc = "wait_sleep" -> "wait_after"
                [] pc = "cy_sleep" -> "cy_after"
                [] pc = "mod_sleep" -> "mod_after"

\* The loop's next position and clock after an iteration.
SleepAdvance(it) ==
  CASE it \in {"stopped", "skip", "elapsed"} -> pc' = AfterSleep /\ loc' = loc
    [] it = "paused" ->
         /\ pc' = pc
         /\ loc' = [loc EXCEPT !.sinceTick = Min(@ + 1, TickSlices)]
    [] it = "slice" ->
         /\ pc' = pc
         /\ loc' = [loc EXCEPT !.slRem = @ - 1,
                               !.sinceTick = IF Ticks(it) THEN 1 ELSE Min(@ + 1, TickSlices)]

\* util.py:103-106 with time.sleep(0.05) and the loop's own time taking more than the
\* 0.05 s that is added to end: the paused polls so far have taken one slice more than
\* the deadline was moved by, so the remaining time is one slice less.
SleepLate ==
  /\ pc' = pc
  /\ loc' = [loc EXCEPT !.slRem = @ - 1, !.sinceTick = Min(@ + 1, TickSlices)]

\* One iteration of sleep_with_control with outcome f: "ok" when every time.sleep(0.05)
\* takes 0.05 s, "late" when the paused polls have overrun by a slice; with an on_tick,
\* the outcome of the observers it calls.
SleepPoll(f) ==
  /\ pc \in SleepPcs
  /\ LET it == sleep_iteration IN
       IF Ticks(it)
         THEN /\ resume_checkpoint' = _set_checkpoint(i, Step, TickWithin(it))
              /\ CASE f = "on_status" /\ pc = "wait_sleep" /\ tick_wait_updates ->
                        Raise("on_status") /\ UNCHANGED <<loc, mon>>
                   [] CheckpointOutcome(f, {"ok", "on_checkpoint", "on_device_state"}) ->
                        /\ SleepAdvance(it)
                        /\ mon' = Notify(Swallow(IF pc = "wait_sleep" /\ tick_wait_updates
                                                   THEN Status(mon, "waiting") ELSE mon, f),
                                         CheckpointDict(i, Step, TickWithin(it)), f)
                        /\ UNCHANGED <<ret, rc, raised>>
                   [] OTHER -> FALSE
         ELSE /\ CASE f = "ok" -> SleepAdvance(it)
                   [] f = "late" /\ it = "paused" /\ loc.slRem > 0 -> SleepLate
                   [] OTHER -> FALSE
              /\ mon' = Cut(Observed(mon, it = "stopped"), it = "skip" /\ pc # "mod_sleep")
              /\ UNCHANGED <<ret, rc, raised, resume_checkpoint>>
  /\ UNCHANGED <<inputVars, flagVars, i, resume_within, fg, log>>

----------------------------------------------------------------------------
(* The invoking side: it sets the flags of RunnerState while the run goes.  *)

\* state.stopped = True (src/run_cli.py:113, gui/app.py:753).
SetStopped ==
  /\ Running /\ ~stopped
  /\ stopped' = TRUE
  /\ mon' = [mon EXCEPT !.stopAt = IF pc = "boundary" /\ i >= Len(steps) THEN "end" ELSE pc]
  /\ UNCHANGED <<inputVars, paused, skip_wait, resume_checkpoint, engVars, log>>

\* state.paused = not state.paused (src/run_cli.py:110, gui/app.py:740).
TogglePause ==
  /\ Running
  /\ paused' = ~paused
  /\ UNCHANGED <<inputVars, stopped, skip_wait, resume_checkpoint, engVars, log, mon>>

\* state.skip_wait = True (gui/app.py:747).
SetSkip ==
  /\ Running /\ ~skip_wait
  /\ skip_wait' = TRUE
  /\ UNCHANGED <<inputVars, paused, stopped, resume_checkpoint, engVars, log, mon>>

\* state.paused = True (src/run_cli.py:110, gui/app.py:740), once in the run and never
\* cleared: the request is followed.
PauseOnce ==
  /\ Running /\ ~paused /\ ~mon.pauseWatch
  /\ paused' = TRUE
  /\ mon' = [mon EXCEPT !.pauseWatch = TRUE]
  /\ UNCHANGED <<inputVars, stopped, skip_wait, resume_checkpoint, engVars, log>>

\* state.skip_wait = True (gui/app.py:747), once in the run: the request is followed.
SkipOnce ==
  /\ Running /\ ~skip_wait /\ ~mon.skipOnce
  /\ skip_wait' = TRUE
  /\ mon' = [mon EXCEPT !.skipOnce = TRUE]
  /\ UNCHANGED <<inputVars, paused, stopped, resume_checkpoint, engVars, log>>

----------------------------------------------------------------------------
(* CycleStep (runner.py:377-609). *)

\* runner.py:427: does the pending resume position belong to this CycleStep?
CycleResumes == i = resume_step_index /\ resume_within.kind \in {"cycle", "cycle_wait"}

\* CycleResumeLocals restarting the resumed range item at its first point.
CycleResumeLocals_RestartsRange(l) ==
  IF CycleResumes
    THEN [l EXCEPT !.start_item_i = Max(0, resume_within.item_i),
                   !.start_sub_k = 0,
                   !.item_i = Max(0, resume_within.item_i),
                   !.resume_phase = IF resume_within.kind = "cycle_wait"
                                      THEN resume_within.phase ELSE "",
                   !.resume_remaining = IF resume_within.kind = "cycle_wait"
                                          THEN Some(resume_within.remaining) ELSE NoneNum]
    ELSE l

\* runner.py:431-449: where the iteration starts and the phase to resume in.
CycleResumeLocals(l) ==
  IF CycleResumes
    THEN [l EXCEPT !.start_item_i = Max(0, resume_within.item_i),
                   !.start_sub_k = Max(0, resume_within.sub_k),
                   !.item_i = Max(0, resume_within.item_i),
                   !.resume_phase = IF resume_within.kind = "cycle_wait"
                                      THEN resume_within.phase ELSE "",
                   !.resume_remaining = IF resume_within.kind = "cycle_wait"
                                          THEN Some(resume_within.remaining) ELSE NoneNum]
    ELSE l

\* runner.py:532-534: the effective on and off waits of the step.
on_s == _eff_wait_seconds(Some(Step.on_wait))

\* off_s as the off_wait of the step, whatever the wait override.
off_s_IgnoresOverride == IF IsNone(Step.off_wait) THEN 0 ELSE Max(0, Val(Step.off_wait))

off_s == _eff_wait_seconds(Step.off_wait)

\* runner.py:377-449: report, static settings, the resume position.
CycleBegin(f) ==
  /\ AtStep("CycleStep")
  /\ log' = Append(log, [ev |-> "CycleStep", i |-> i])
  /\ CASE f = "on_status" -> Raise("on_status") /\ UNCHANGED <<i, loc, mon, resume_within>>
       [] f = "setter" /\ ~dry_run
            /\ (channels_requested(Step) # <<>> \/ static_calls(Step) # <<>>) ->
            /\ Raise("setter")
            /\ mon' = Channels(Status(mon, "step"), Step)
            /\ UNCHANGED <<i, loc, resume_within>>
       [] f = "ok" -> /\ mon' = IF dry_run THEN Status(mon, "step")
                                ELSE Static(Channels(Status(mon, "step"), Step), Step)
                      /\ IF dry_run
                           THEN NextStep /\ UNCHANGED resume_within
                           ELSE /\ pc' = "cy_item"
                                /\ loc' = CycleResumeLocals(loc)
                                /\ resume_within' = IF CycleResumes THEN None ELSE resume_within
                                /\ i' = i
                      /\ UNCHANGED <<ret, rc, raised>>
       [] OTHER -> FALSE
  /\ UNCHANGED <<inputVars, flagVars, resume_checkpoint, fg>>

\* runner.py:551-552 and 582-583: the resume phase and remaining time of a point.
PointPhase(l, item_i, sub_k, in_range) ==
  IF l.resume_phase # "" /\ item_i = l.start_item_i /\ (in_range => sub_k = l.start_sub_k)
    THEN l.resume_phase ELSE ""

PointRem(l, item_i, sub_k, in_range) ==
  IF PointPhase(l, item_i, sub_k, in_range) # "" THEN l.resume_remaining ELSE NoneNum

\* runner.py:500-513 (_set_freq) then 551-552: the checkpoint, the frequency, the phase.
VisitPoint(l, item_i, sub_k, sub_n, in_range) ==
  [l EXCEPT !.item_i = item_i, !.sub_k = sub_k, !.sub_n = sub_n, !.in_range = in_range,
            !.phase = PointPhase(l, item_i, sub_k, in_range),
            !.rem = PointRem(l, item_i, sub_k, in_range),
            !.last_point = <<item_i, sub_k>>, !.points = @ + 1, !.held = {},
            !.acts = <<"checkpoint", "frequency">>,
            !.calls = _set_frequency_and_adaptive_voltage(step_channels(Step),
                                                          Step.adaptive_voltage)]

PointWithin(item_i, sub_k, sub_n, freq_hz) ==
  [kind |-> "cycle", item_i |-> item_i, sub_k |-> sub_k, sub_n |-> sub_n,
   freq_hz |-> freq_hz]

\* runner.py:537-541 and 573-583: the outer loop takes an item; a literal is visited.
CycleItem(f) ==
  /\ pc = "cy_item"
  /\ IF loc.item_i >= Len(Step.items) \/ stopped
       THEN /\ f = "ok"
            /\ pc' = "cy_end"
            /\ mon' = Observed(mon, loc.item_i < Len(Step.items) /\ stopped)
            /\ UNCHANGED <<loc, resume_checkpoint, log, ret, rc, raised>>
       ELSE LET item == Step.items[loc.item_i + 1] IN
            IF item.range
              THEN /\ f = "ok"
                   /\ pc' = "cy_range"
                   /\ loc' = [loc EXCEPT !.in_range = TRUE,
                                         !.sub_n = _cycle_range_count(item),
                                         !.sub_k = IF loc.item_i = loc.start_item_i
                                                     THEN Max(0, loc.start_sub_k) ELSE 0]
                   /\ UNCHANGED <<resume_checkpoint, log, mon, ret, rc, raised>>
              ELSE /\ resume_checkpoint' = _set_checkpoint(i, Step, PointWithin(loc.item_i, 0, 1,
                                                          Step.items[loc.item_i + 1].hz))
                   /\ log' = log
                   /\ CASE f = "setter" ->
                             Raise("setter") /\ mon' = Setter(mon) /\ UNCHANGED loc
                        [] CheckpointOutcome(f, {"ok", "on_checkpoint"}) ->
                             /\ pc' = "cy_on"
                             /\ loc' = VisitPoint(loc, loc.item_i, 0, 1, FALSE)
                             /\ mon' = Notify(Work(Swallow(Setter(mon), f), "points"),
                                              CheckpointDict(i, Step, PointWithin(loc.item_i, 0, 1,
                                                 Step.items[loc.item_i + 1].hz)), f)
                             /\ UNCHANGED <<ret, rc, raised>>
                        [] OTHER -> FALSE
  /\ UNCHANGED <<inputVars, flagVars, i, resume_within, fg>>

\* runner.py:544-552: the range's generator yields the next point, which is visited.
CycleRange(f) ==
  /\ pc = "cy_range"
  /\ LET item == Step.items[loc.item_i + 1] IN
     IF loc.sub_k \notin _iter_cycle_range(item, loc.sub_k) \/ stopped
       THEN /\ f = "ok"
            /\ pc' = "cy_item"
            /\ loc' = [loc EXCEPT !.item_i = @ + 1]
            /\ mon' = Observed(mon, loc.sub_k \in _iter_cycle_range(item, loc.sub_k) /\ stopped)
            /\ UNCHANGED <<resume_checkpoint, log, ret, rc, raised>>
       ELSE /\ resume_checkpoint' =
                 _set_checkpoint(i, Step,
                                 PointWithin(loc.item_i, loc.sub_k, loc.sub_n,
                                             _iter_cycle_range_freq(item, loc.sub_k)))
            /\ log' = log
            /\ CASE f = "setter" -> Raise("setter") /\ mon' = Setter(mon) /\ UNCHANGED loc
                 [] CheckpointOutcome(f, {"ok", "on_checkpoint"}) ->
                      /\ pc' = "cy_on"
                      /\ loc' = VisitPoint(loc, loc.item_i, loc.sub_k, loc.sub_n, TRUE)
                      /\ mon' = Notify(Work(Swallow(Setter(mon), f), "points"),
                                       CheckpointDict(i, Step, PointWithin(loc.item_i, loc.sub_k, loc.sub_n,
                                          _iter_cycle_range_freq(item, loc.sub_k))), f)
                      /\ UNCHANGED <<ret, rc, raised>>
                 [] OTHER -> FALSE
  /\ UNCHANGED <<inputVars, flagVars, i, resume_within, fg>>

\* runner.py:455-462: the duration _cycle_sleep sleeps for.
_cycle_sleep_eff(seconds, override_remaining) ==
  IF skip_wait THEN 0
  ELSE IF ~IsNone(override_remaining) THEN Max(0, Val(override_remaining))
  ELSE seconds

\* runner.py:566-571 and 592-595: the point is over: the resume phase is consumed and
\* the loop takes the next point of the range, or the next item.
PointDone(l) ==
  LET l1 == [l EXCEPT !.resume_phase = IF l.phase # "" THEN "" ELSE @,
                      !.resume_remaining = IF l.phase # "" THEN NoneNum ELSE @,
                      !.start_sub_k = 0, !.hold = "", !.slRem = 0, !.sinceTick = 0]
  IN  IF l.in_range THEN [l1 EXCEPT !.sub_k = @ + 1] ELSE [l1 EXCEPT !.item_i = @ + 1]

PointDonePc == IF loc.in_range THEN "cy_range" ELSE "cy_item"

\* runner.py:555-556 and 585-586: the on hold of the point.
CycleOn ==
  /\ pc = "cy_on"
  /\ IF on_s > 0 /\ loc.phase # "off"
       THEN LET eff == _cycle_sleep_eff(on_s, IF loc.phase = "on" THEN loc.rem ELSE NoneNum) IN
            /\ skip_wait' = FALSE
            /\ mon' = Slept(Cut(mon, skip_wait), eff)
            /\ IF eff <= 0
                 THEN /\ pc' = "cy_off"
                      /\ loc' = [loc EXCEPT !.held = @ \cup {"on"},
                                            !.acts = Append(@, "on")]
                 ELSE /\ pc' = "cy_sleep"
                      /\ loc' = [loc EXCEPT !.hold = "on", !.slRem = eff,
                                            !.sinceTick = TickSlices,
                                            !.held = @ \cup {"on"},
                                            !.acts = Append(@, "on")]
       ELSE /\ pc' = "cy_off"
            /\ UNCHANGED <<skip_wait, loc, mon>>
  /\ UNCHANGED <<inputVars, paused, stopped, resume_checkpoint, i, resume_within, fg, ret, rc,
                 raised, log>>

\* CycleAfter leaving a skip pressed during the hold pending.
CycleAfter_KeepsSkip ==
  /\ pc = "cy_after"
  /\ IF loc.hold = "on"
       THEN pc' = "cy_off" /\ loc' = loc
       ELSE pc' = PointDonePc /\ loc' = PointDone(loc)
  /\ UNCHANGED <<inputVars, flagVars, resume_checkpoint, i, resume_within, fg, ret, rc,
                 raised, log, mon>>

\* runner.py:496-498: _cycle_sleep consumes a skip pressed during the hold.
CycleAfter ==
  /\ pc = "cy_after"
  /\ skip_wait' = FALSE
  /\ IF loc.hold = "on"
       THEN pc' = "cy_off" /\ loc' = loc
       ELSE pc' = PointDonePc /\ loc' = PointDone(loc)
  /\ UNCHANGED <<inputVars, paused, stopped, resume_checkpoint, i, resume_within, fg, ret, rc,
                 raised, log, mon>>

\* runner.py:559-563 and 587-590: the pause frequency and the off hold of the point.
CycleOff(f) ==
  /\ pc = "cy_off"
  /\ IF off_s > 0
       THEN LET eff == _cycle_sleep_eff(off_s, IF loc.phase = "off" THEN loc.rem ELSE NoneNum) IN
            CASE f = "setter" ->
                   /\ Raise("setter")
                   /\ mon' = Setter(mon)
                   /\ UNCHANGED <<skip_wait, loc>>
              [] f = "ok" ->
                   /\ mon' = Slept(Cut(Setter(mon), skip_wait), eff)
                   /\ skip_wait' = FALSE
                   /\ IF eff <= 0
                        THEN /\ pc' = PointDonePc
                             /\ loc' = PointDone([loc EXCEPT !.held = @ \cup {"off"},
                                                             !.acts = @ \o <<"pause", "off">>,
                                                             !.calls = @ \o pause_write(Step)])
                        ELSE /\ pc' = "cy_sleep"
                             /\ loc' = [loc EXCEPT !.hold = "off", !.slRem = eff,
                                                   !.sinceTick = TickSlices,
                                                   !.held = @ \cup {"off"},
                                                   !.acts = @ \o <<"pause", "off">>,
                                                   !.calls = @ \o pause_write(Step)]
                   /\ UNCHANGED <<ret, rc, raised>>
              [] OTHER -> FALSE
       ELSE /\ f = "ok"
            /\ pc' = PointDonePc
            /\ loc' = PointDone(loc)
            /\ UNCHANGED <<skip_wait, mon, ret, rc, raised>>
  /\ UNCHANGED <<inputVars, paused, stopped, resume_checkpoint, i, resume_within, fg, log>>

\* runner.py:597-609: after the loop: stopped returns 4, else the checkpoint is cleared.
CycleEnd(f) ==
  /\ pc = "cy_end"
  /\ IF stopped
       THEN ReturnStopped(f) /\ UNCHANGED <<i, loc>>
       ELSE /\ f = "ok"
            /\ resume_checkpoint' = None
            /\ NextStep
            /\ UNCHANGED <<ret, rc, raised, mon>>
  /\ UNCHANGED <<inputVars, flagVars, resume_within, fg, log>>

----------------------------------------------------------------------------
(* ModStep (runner.py:611-842). *)

\* runner.py:681: does the pending resume position belong to this ModStep?
ModResumes == i = resume_step_index /\ resume_within.kind = "mod"

\* runner.py:748: does sweep apply the saved position to this leg?
SweepResumes(l, leg, apply_resume) ==
  apply_resume /\ l.resume_mod.kind = "mod" /\ l.resume_mod.leg = leg

\* runner.py:745-763: the index at which sweep starts the leg.
sweep_start_k(l, leg, apply_resume) ==
  LET updates == sweep_updates(Step)
      start_k == IF SweepResumes(l, leg, apply_resume)
                   THEN _calc_resume_start_k(l.resume_mod.k, l.resume_mod.updates, updates)
                   ELSE 0
  IN  IF start_k < 0 THEN 0 ELSE IF start_k > updates THEN updates ELSE start_k

\* runner.py:738-763: sweep begins a leg (the saved position is consumed).
SweepBegin(l, leg, apply_resume) ==
  [l EXCEPT !.leg = leg, !.k = sweep_start_k(l, leg, apply_resume),
            !.resume_mod = IF SweepResumes(l, leg, apply_resume) THEN None ELSE @,
            !.slRem = 0,
            !.start_k = sweep_start_k(l, leg, apply_resume),
            !.n_updates = 0, !.n_delays = 0, !.freq = <<>>]

\* first_leg ignoring the saved leg: a rise-and-fall cycle always begins with the rise.
first_leg_AlwaysRise(l, apply_resume) ==
  CASE Step.direction = "rise" -> "rise"
    [] Step.direction = "fall" -> "fall"
    [] OTHER -> "rise"

\* runner.py:796-806: the first leg run_one_cycle sweeps.
first_leg(l, apply_resume) ==
  CASE Step.direction = "rise" -> "rise"
    [] Step.direction = "fall" -> "fall"
    [] OTHER -> IF apply_resume /\ l.resume_mod.kind = "mod" /\ l.resume_mod.leg = "fall"
                  THEN "fall" ELSE "rise"

\* runner.py:611-684 and 813-825: report, static settings, the resume position, and
\* for repeat=false the first leg of the only cycle.
ModBegin(f) ==
  /\ AtStep("ModStep")
  /\ CASE f = "on_status" ->
            /\ Raise("on_status")
            /\ log' = Append(log, [ev |-> "ModStep", i |-> i])
            /\ UNCHANGED <<i, loc, mon, resume_within>>
       [] f = "setter" /\ ~dry_run
            /\ (channels_requested(Step) # <<>> \/ static_calls(Step) # <<>>) ->
            /\ Raise("setter")
            /\ log' = Append(log, [ev |-> "ModStep", i |-> i])
            /\ mon' = Channels(Status(mon, "step"), Step)
            /\ UNCHANGED <<i, loc, resume_within>>
       [] f \in {"ok", "on_device_state"} /\ (f = "on_device_state" => ~dry_run) ->
            /\ mon' = IF dry_run THEN Status(mon, "step")
                      ELSE Static(Channels(Swallow(Status(mon, "step"), f), Step), Step)
            /\ IF dry_run
                 THEN /\ NextStep
                      /\ log' = Append(log, [ev |-> "ModStep", i |-> i])
                      /\ UNCHANGED resume_within
                 ELSE LET l0 == [loc EXCEPT !.resume_mod = IF ModResumes THEN resume_within
                                                           ELSE None,
                                            !.first_cycle = Step.repeat,
                                            !.apply_resume = TRUE]
                          leg == first_leg(l0, TRUE)
                      IN  /\ resume_within' = IF ModResumes THEN None ELSE resume_within
                          /\ i' = i
                          /\ IF Step.repeat
                               THEN /\ pc' = "mod_rep"
                                    /\ loc' = l0
                                    /\ log' = Append(log, [ev |-> "ModStep", i |-> i])
                               ELSE /\ pc' = "mod_k"
                                    /\ loc' = SweepBegin(l0, leg, TRUE)
                                    /\ log' = Append(log, [ev |-> "ModStep", i |-> i])
            /\ UNCHANGED <<ret, rc, raised>>
       [] OTHER -> FALSE
  /\ UNCHANGED <<inputVars, flagVars, resume_checkpoint, fg>>

\* ModRepeat ending the step on a pending skip without consuming it.
ModRepeat_KeepsSkip ==
  /\ pc = "mod_rep"
  /\ IF stopped
       THEN /\ pc' = "mod_end"
            /\ mon' = Observed(mon, TRUE)
            /\ UNCHANGED loc
       ELSE IF skip_wait
         THEN /\ pc' = "mod_end"
              /\ loc' = [loc EXCEPT !.result = "skipped"]
              /\ UNCHANGED mon
         ELSE LET leg == first_leg(loc, loc.first_cycle) IN
              /\ loc.cycles < MaxModCycles
              /\ pc' = "mod_k"
              /\ loc' = SweepBegin([loc EXCEPT !.apply_resume = loc.first_cycle], leg,
                                   loc.first_cycle)
              /\ UNCHANGED mon
  /\ UNCHANGED <<inputVars, flagVars, resume_checkpoint, i, resume_within, fg, ret, rc,
                 raised, log>>

\* runner.py:816-820: the head of the repeat loop; a cycle begins with its first leg.
ModRepeat ==
  /\ pc = "mod_rep"
  /\ IF stopped
       THEN /\ pc' = "mod_end"
            /\ mon' = Observed(mon, TRUE)
            /\ UNCHANGED <<skip_wait, loc>>
       ELSE IF skip_wait
         THEN /\ skip_wait' = FALSE
              /\ pc' = "mod_end"
              /\ loc' = [loc EXCEPT !.result = "skipped"]
              /\ mon' = Cut(mon, TRUE)
         ELSE LET leg == first_leg(loc, loc.first_cycle) IN
              /\ loc.cycles < MaxModCycles
              /\ pc' = "mod_k"
              /\ loc' = SweepBegin([loc EXCEPT !.apply_resume = loc.first_cycle], leg,
                                   loc.first_cycle)
              /\ UNCHANGED <<skip_wait, mon>>
  /\ UNCHANGED <<inputVars, paused, stopped, resume_checkpoint, i, resume_within, fg, ret, rc,
                 raised, log>>

\* runner.py:808-811: does run_one_cycle sweep the fall leg after this leg?
FallFollows(l, result) ==
  result = "ok" /\ l.leg = "rise" /\ Step.direction \notin {"rise", "fall"}

\* runner.py:793, 808-811, 820-825: sweep returns; run_one_cycle sweeps the fall leg or
\* returns; the repeat loop takes the next cycle or ends.
SweepReturnLoc(l, result) ==
  IF FallFollows(l, result)
    THEN SweepBegin(l, "fall", FALSE)
    ELSE IF Step.repeat /\ result = "ok"
           THEN [l EXCEPT !.result = result, !.first_cycle = FALSE, !.cycles = @ + 1,
                          !.k = 0, !.leg = "", !.slRem = 0]
           ELSE [l EXCEPT !.result = result, !.slRem = 0]

\* SweepReturnPc ending the step after one cycle whether or not it repeats.
SweepReturnPc_OneCycle(l, result) ==
  IF FallFollows(l, result) THEN "mod_k" ELSE "mod_end"

SweepReturnPc(l, result) ==
  IF FallFollows(l, result) THEN "mod_k"
  ELSE IF Step.repeat /\ result = "ok" THEN "mod_rep"
  ELSE "mod_end"

\* runner.py:774-781: the within position sweep stores before each update.
ModWithin(l) ==
  [kind |-> "mod", leg |-> l.leg, k |-> l.k, updates |-> sweep_updates(Step),
   from_hz |-> IF l.leg = "rise" THEN Step.start_hz ELSE Step.end_hz,
   to_hz |-> IF l.leg = "rise" THEN Step.end_hz ELSE Step.start_hz]

\* sweep_freq dividing the span into one part more than there are updates.
sweep_freq_StopsShort(from_hz, to_hz, k, updates) ==
  [num |-> from_hz * (updates + 1) + (to_hz - from_hz) * k, den |-> updates + 1]

\* runner.py:771-772: frac = k / float(updates); freq = from_hz + (to_hz - from_hz) * frac,
\* held as the exact fraction num / den.
sweep_freq(from_hz, to_hz, k, updates) ==
  [num |-> from_hz * updates + (to_hz - from_hz) * k, den |-> updates]

\* runner.py:765-793: one update of the sweep: the stop and skip checks, the checkpoint,
\* the frequency, and the delay before the next update.
SweepUpdate(f) ==
  /\ pc = "mod_k"
  /\ IF loc.k > sweep_updates(Step) \/ stopped \/ skip_wait
       THEN LET result == IF loc.k > sweep_updates(Step) THEN "ok"
                          ELSE IF stopped THEN "stopped" ELSE "skipped" IN
            /\ f = "ok"
            /\ skip_wait' = IF result = "skipped" THEN FALSE ELSE skip_wait
            /\ mon' = Cut(Observed(mon, result = "stopped"), result = "skipped")
            /\ pc' = SweepReturnPc(loc, result)
            /\ loc' = SweepReturnLoc(loc, result)
            /\ UNCHANGED <<resume_checkpoint, ret, rc, raised>>
       ELSE /\ resume_checkpoint' = _set_checkpoint(i, Step, ModWithin(loc))
            /\ UNCHANGED skip_wait
            /\ CASE f = "setter" ->
                      /\ Raise("setter")
                      /\ mon' = Setter([mon EXCEPT !.ckCycle = loc.cycles])
                      /\ UNCHANGED loc
                 [] CheckpointOutcome(f, {"ok", "on_checkpoint", "on_device_state"}) ->
                      /\ mon' = Notify(Slept(Work(Swallow(Setter([mon EXCEPT
                                                                     !.ckCycle = loc.cycles]), f),
                                                  "updates"),
                                             IF loc.k < sweep_updates(Step)
                                               THEN leg_seconds(Step) \div sweep_updates(Step)
                                               ELSE 0),
                                       CheckpointDict(i, Step, ModWithin(loc)), f)
                      /\ LET l == [loc EXCEPT
                                      !.n_updates = @ + 1,
                                      !.calls = _set_frequency_and_adaptive_voltage(
                                                  step_channels(Step), Step.adaptive_voltage),
                                      !.freq = <<sweep_freq(ModWithin(loc).from_hz,
                                                            ModWithin(loc).to_hz,
                                                            loc.k, sweep_updates(Step))>>]
                         IN  IF loc.k < sweep_updates(Step)
                               THEN /\ pc' = "mod_sleep"
                                    /\ loc' = [l EXCEPT !.n_delays = @ + 1,
                                                 !.slRem =
                                                   leg_seconds(Step) \div sweep_updates(Step)]
                               ELSE /\ pc' = "mod_k"
                                    /\ loc' = [l EXCEPT !.k = @ + 1]
                      /\ UNCHANGED <<ret, rc, raised>>
                 [] OTHER -> FALSE
  /\ UNCHANGED <<inputVars, paused, stopped, i, resume_within, fg, log>>

\* ModAfter advancing the sweep by two updates.
ModAfter_SkipsOne ==
  /\ pc = "mod_after"
  /\ IF skip_wait
       THEN /\ skip_wait' = FALSE
            /\ pc' = SweepReturnPc(loc, "skipped")
            /\ loc' = SweepReturnLoc(loc, "skipped")
       ELSE /\ pc' = "mod_k"
            /\ loc' = [loc EXCEPT !.k = @ + 2, !.slRem = 0]
            /\ UNCHANGED skip_wait
  /\ UNCHANGED <<inputVars, paused, stopped, resume_checkpoint, i, resume_within, fg, ret, rc,
                 raised, log, mon>>

\* runner.py:791-792: after the delay a pending skip ends the sweep.
ModAfter ==
  /\ pc = "mod_after"
  /\ IF skip_wait
       THEN /\ skip_wait' = FALSE
            /\ pc' = SweepReturnPc(loc, "skipped")
            /\ loc' = SweepReturnLoc(loc, "skipped")
            /\ mon' = Cut(mon, TRUE)
       ELSE /\ pc' = "mod_k"
            /\ loc' = [loc EXCEPT !.k = @ + 1, !.slRem = 0]
            /\ UNCHANGED <<skip_wait, mon>>
  /\ UNCHANGED <<inputVars, paused, stopped, resume_checkpoint, i, resume_within, fg, ret, rc,
                 raised, log>>

\* runner.py:827-842: stopped returns 4; else the checkpoint is cleared.
ModEnd(f) ==
  /\ pc = "mod_end"
  /\ IF loc.result = "stopped" \/ stopped
       THEN ReturnStopped(f) /\ UNCHANGED <<i, loc>>
       ELSE CASE f = "on_status" /\ loc.result = "skipped" ->
                   Raise("on_status") /\ UNCHANGED <<i, loc, mon, resume_checkpoint>>
              [] f = "ok" ->
                   /\ resume_checkpoint' = None
                   /\ NextStep
                   /\ mon' = IF loc.result = "skipped" THEN Status(mon, "Skipped") ELSE mon
                   /\ UNCHANGED <<ret, rc, raised>>
              [] OTHER -> FALSE
  /\ UNCHANGED <<inputVars, flagVars, resume_within, fg, log>>

----------------------------------------------------------------------------
(* The engine run on its own: run_sequence called with a step sequence, a   *)
(* resume checkpoint and a RunnerState whose flags the caller sets.         *)

SeqsUpTo(S, n) == UNION {[1..m -> S] : m \in 1..n}

StepPool ==
  {FreqStep(10), StopStep, WaitStep(2),
   CycleStep(<<Literal(5), CycleRangeSpec(1, 2, 1)>>, 2, Some(1)),
   ModStep("rise-and-fall", FALSE), ModStep("rise", TRUE)}

WithinPool ==
  {None,
   [kind |-> "wait", remaining |-> 1],
   [kind |-> "cycle_wait", phase |-> "on", item_i |-> 1, sub_k |-> 1, sub_n |-> 2,
    remaining |-> 1],
   [kind |-> "mod", leg |-> "fall", k |-> 1, updates |-> 2, from_hz |-> 20, to_hz |-> 10]}

ResumeDict(step_index, within) ==
  [kind |-> "dict", v |-> 1, step_index |-> step_index, within |-> within]

ResumePool(ss) ==
  {None} \cup {ResumeDict(n, w) : n \in 0..(Len(ss) - 1), w \in WithinPool}

Init ==
  /\ steps \in SeqsUpTo(StepPool, MaxSteps)
  /\ resume \in ResumePool(steps)
  /\ dry_run \in BOOLEAN
  /\ fixed_wait_seconds = NoneNum
  /\ tick_wait_updates = TRUE
  /\ app = NoApp
  /\ EngineInit

\* The calls that may raise when the observers are well behaved.
Faults == {"ok", "ctor", "connect", "setter", "close"}

Engine(f) ==
  \/ Connect(f)
  \/ BoundaryCheckpoint(f)
  \/ StopCheck1(f)
  \/ StopCheck2(f)
  \/ LoopEnd(f)
  \/ Finally(f)
  \/ DoFreq(f)
  \/ DoStop(f)
  \/ WaitBegin(f)
  \/ SleepPoll(f)
  \/ CycleBegin(f)
  \/ CycleItem(f)
  \/ CycleRange(f)
  \/ CycleOff(f)
  \/ CycleEnd(f)
  \/ ModBegin(f)
  \/ SweepUpdate(f)
  \/ ModEnd(f)

EngineQuiet ==
  \/ PauseGate
  \/ WaitAfter
  \/ CycleOn
  \/ CycleAfter
  \/ ModRepeat
  \/ ModAfter

Caller ==
  \/ SetStopped
  \/ TogglePause
  \/ SetSkip

Next ==
  \/ \E f \in Faults : Engine(f)
  \/ EngineQuiet
  \/ Caller

Spec == Init /\ [][Next]_vars

\* The run with observers that may raise: each callback the engine invokes either
\* returns or raises.
Observers == {"on_status", "on_progress", "on_checkpoint", "on_device_state"}
FaultsCb == Faults \cup Observers
NextCb == (\E f \in FaultsCb : Engine(f)) \/ EngineQuiet \/ Caller
\* Sequences of up to MaxStepsCb steps.
MaxStepsCb == 1
InitCb ==
  /\ steps \in SeqsUpTo(StepPool, MaxStepsCb)
  /\ resume \in ResumePool(steps)
  /\ dry_run \in BOOLEAN
  /\ fixed_wait_seconds = NoneNum
  /\ tick_wait_updates = TRUE
  /\ app = NoApp
  /\ EngineInit
SpecCb == InitCb /\ [][NextCb]_vars

\* The run resumed inside a CycleStep: one CycleStep, a resume argument naming a hold
\* of one of its points (a position the engine can have stored for that step), a real
\* device whose setters may raise.
CyclePool ==
  {CycleStep(<<Literal(5), CycleRangeSpec(1, 2, 1), Literal(7)>>, 2, Some(1)),
   CycleStep(<<CycleRangeSpec(3, 1, -1), Literal(5)>>, 2, NoneNum)}

MaxPoints == 3
MaxRemaining == 2

\* The number of points of an item of a CycleStep.
ItemCount(item) == IF item.range THEN _cycle_range_count(item) ELSE 1

\* The points (item_i, sub_k) of a CycleStep.
CyclePoints(step) ==
  {p \in (0..(Len(step.items) - 1)) \X (0..(MaxPoints - 1)) :
     p[2] < ItemCount(step.items[p[1] + 1])}

CycleWaitPool(step) ==
  {[kind |-> "cycle_wait", phase |-> ph, item_i |-> p[1], sub_k |-> p[2],
    sub_n |-> ItemCount(step.items[p[1] + 1]), remaining |-> r] :
     ph \in IF IsNone(step.off_wait) THEN {"on"} ELSE {"on", "off"},
     p \in CyclePoints(step), r \in 0..MaxRemaining}

InitCycle ==
  /\ steps \in {<<c>> : c \in CyclePool}
  /\ resume \in {ResumeDict(0, w) : w \in CycleWaitPool(steps[1])}
  /\ dry_run = FALSE
  /\ fixed_wait_seconds = NoneNum
  /\ tick_wait_updates = TRUE
  /\ app = NoApp
  /\ EngineInit

FaultsCycle == {"ok", "setter"}

EngineCycle(f) ==
  \/ Connect(f)
  \/ BoundaryCheckpoint(f)
  \/ StopCheck1(f)
  \/ StopCheck2(f)
  \/ LoopEnd(f)
  \/ Finally(f)
  \/ SleepPoll(f)
  \/ CycleBegin(f)
  \/ CycleItem(f)
  \/ CycleRange(f)
  \/ CycleOff(f)
  \/ CycleEnd(f)

EngineCycleQuiet == PauseGate \/ CycleOn \/ CycleAfter

NextCycle == (\E f \in FaultsCycle : EngineCycle(f)) \/ EngineCycleQuiet \/ Caller
SpecCycle == InitCycle /\ [][NextCycle]_vars

----------------------------------------------------------------------------
(* The GUI (gui/app.py): App starts run_sequence on a worker thread, sets   *)
(* the flags of RunnerState from its buttons, drains the worker's message   *)
(* queue, and on closing the window persists the checkpoint of a running    *)
(* script in the resume record of settings.json (gui/resume_store.py).      *)
(* The command file is saved, clean and unchanged (_dirty is False and the  *)
(* file's sha256 matches), a port is selected, the wait override and the    *)
(* repeat of the file are off.  Closing the window ends the process and     *)
(* with it the daemon worker thread; the application can be started again.  *)

MaxSessions == 2
MaxRuns == 1

\* App.__init__ and the loading of settings (app.py:100-125, 855-876): the file is
\* opened, which loads the resume record for it (ResumeStore.load_for_file), and the
\* auto-resume is scheduled.
AppInit(store, session) ==
  [kind |-> "App", _running |-> FALSE, worker |-> "none", msgq |-> <<>>,
   store |-> store, checkpoint |-> store,
   autostart |-> "scheduled", _resume_autostart_done |-> FALSE,
   closed |-> FALSE, session |-> session, runs |-> 0,
   \* history: was the run started by the auto-resume; where the engine was at close
   auto |-> FALSE, closePc |-> ""]

\* No run_sequence call is in progress.
EngineIdle ==
  /\ paused = FALSE /\ stopped = FALSE /\ skip_wait = FALSE
  /\ resume_checkpoint = None
  /\ pc = "idle" /\ i = 0 /\ resume_within = None /\ loc = LocInit
  /\ fg = "none" /\ ret = "none" /\ rc = -1 /\ raised = "none"
  /\ log = <<>> /\ mon = MonInit

\* _start_worker starting every run with paused false.
_start_worker_NeverPaused(resume_ck, start_paused) ==
  /\ resume' = resume_ck
  /\ resume_checkpoint' = None
  /\ paused' = FALSE /\ stopped' = FALSE /\ skip_wait' = FALSE
  /\ pc' = "start"
  /\ i' = ResumeIndexOf(resume_ck)
  /\ resume_within' = ResumeWithinOf(resume_ck)
  /\ loc' = LocInit
  /\ fg' = "none" /\ ret' = "none" /\ rc' = -1 /\ raised' = "none"
  /\ log' = <<>> /\ mon' = MonInit
  /\ UNCHANGED <<steps, dry_run, fixed_wait_seconds, tick_wait_updates>>

\* app.py:549-652 (_start_worker): forget the previous checkpoint, set the flags, and
\* start the worker thread, which calls run_sequence(steps, resume=resume_ck, ...).
_start_worker(resume_ck, start_paused) ==
  /\ resume' = resume_ck
  /\ resume_checkpoint' = None
  /\ paused' = start_paused /\ stopped' = FALSE /\ skip_wait' = FALSE
  /\ pc' = "start"
  /\ i' = ResumeIndexOf(resume_ck)
  /\ resume_within' = ResumeWithinOf(resume_ck)
  /\ loc' = LocInit
  /\ fg' = "none" /\ ret' = "none" /\ rc' = -1 /\ raised' = "none"
  /\ log' = <<>> /\ mon' = MonInit
  /\ UNCHANGED <<steps, dry_run, fixed_wait_seconds, tick_wait_updates>>

\* app.py:655-672 (_start): the Start button; nothing while the worker is alive.
_start ==
  /\ ~app.closed
  /\ app.worker # "alive"
  /\ app.runs < MaxRuns
  /\ _start_worker(None, FALSE)
  /\ app' = [app EXCEPT !._running = TRUE, !.worker = "alive", !.runs = @ + 1,
                        !.auto = FALSE]

\* app.py:675-718 (_maybe_autostart_resume_paused), called once after startup.
_maybe_autostart_resume_paused ==
  /\ ~app.closed
  /\ app.autostart = "scheduled"
  /\ IF ~app._resume_autostart_done /\ ~app._running /\ app.checkpoint.kind = "dict"
          /\ app.runs < MaxRuns
       THEN /\ _start_worker(app.checkpoint, TRUE)
            /\ app' = [app EXCEPT !.autostart = "ran", !._resume_autostart_done = TRUE,
                                  !._running = TRUE, !.worker = "alive", !.runs = @ + 1,
                                  !.auto = TRUE]
       ELSE /\ app' = [app EXCEPT !.autostart = "ran"]
            /\ UNCHANGED <<steps, resume, dry_run, fixed_wait_seconds, tick_wait_updates,
                           flagVars, resume_checkpoint, engVars, log, mon>>

\* WorkerPost reporting DONE however run_sequence ended.
WorkerPost_AlwaysDone ==
  /\ pc = "returned"
  /\ app.kind = "App"
  /\ pc' = "posted"
  /\ app' = [app EXCEPT !.worker = "dead",
                        !.msgq = Append(@, [kind |-> "DONE", rc |-> rc])]
  /\ UNCHANGED <<steps, resume, dry_run, fixed_wait_seconds, tick_wait_updates, flagVars,
                 resume_checkpoint, i, resume_within, loc, fg, ret, rc, raised, log, mon>>

\* app.py:623-649 (worker): run_sequence is over; its result is put in the queue.
WorkerPost ==
  /\ pc = "returned"
  /\ app.kind = "App"
  /\ pc' = "posted"
  /\ app' = [app EXCEPT !.worker = "dead",
                        !.msgq = Append(@, IF ret = "return"
                                             THEN [kind |-> "DONE", rc |-> rc]
                                             ELSE [kind |-> "ERROR"])]
  /\ UNCHANGED <<steps, resume, dry_run, fixed_wait_seconds, tick_wait_updates, flagVars,
                 resume_checkpoint, i, resume_within, loc, fg, ret, rc, raised, log, mon>>

\* app.py:955-1157 (_drain_queue): every queued message is handled.  DONE and ERROR
\* end the running state; DONE also clears the resume record (ResumeStore.clear).
_drain_queue ==
  /\ ~app.closed
  /\ app.msgq # <<>>
  /\ LET done == \E n \in 1..Len(app.msgq) : app.msgq[n].kind = "DONE" IN
     app' = [app EXCEPT !.msgq = <<>>, !._running = FALSE,
                        !.store = IF done THEN None ELSE @,
                        !.checkpoint = IF done THEN None ELSE @]
  /\ UNCHANGED <<steps, resume, dry_run, fixed_wait_seconds, tick_wait_updates, flagVars,
                 resume_checkpoint, engVars, log, mon>>

\* app.py:720-742 (_toggle_pause).
_toggle_pause ==
  /\ ~app.closed /\ app._running
  /\ paused' = ~paused
  /\ mon' = [mon EXCEPT !.unpaused = @ \/ paused]
  /\ UNCHANGED <<inputVars, stopped, skip_wait, resume_checkpoint, engVars, log>>

\* app.py:744-748 (_next_command).
_next_command ==
  /\ ~app.closed /\ app._running
  /\ ~skip_wait
  /\ skip_wait' = TRUE
  /\ UNCHANGED <<inputVars, paused, stopped, resume_checkpoint, engVars, log, mon>>

\* app.py:750-756 (_stop).
_stop ==
  /\ ~app.closed /\ app._running
  /\ ~stopped
  /\ stopped' = TRUE /\ paused' = FALSE /\ skip_wait' = TRUE
  /\ mon' = [mon EXCEPT !.stopAt = IF pc = "boundary" /\ i >= Len(steps) THEN "end" ELSE pc]
  /\ UNCHANGED <<inputVars, resume_checkpoint, engVars, log>>

\* app.py:892-950 (_on_close) with ResumeStore.persist (resume_store.py:99-123): the
\* checkpoint of a running script is persisted, the settings are saved without
\* touching the resume record, and the window is destroyed.
_on_close ==
  /\ ~app.closed
  /\ LET persists == app._running /\ resume_checkpoint.kind = "dict" IN
     app' = [app EXCEPT !.store = IF persists THEN resume_checkpoint ELSE @,
                        !.checkpoint = IF persists THEN resume_checkpoint ELSE @,
                        !.closed = TRUE, !.closePc = pc]
  /\ pc' = "killed"
  /\ UNCHANGED <<steps, resume, dry_run, fixed_wait_seconds, tick_wait_updates, flagVars,
                 resume_checkpoint, i, resume_within, loc, fg, ret, rc, raised, log, mon>>

\* The application is started again: a new process with the settings file left by the
\* previous one.
AppStart ==
  /\ app.closed
  /\ app.session < MaxSessions
  /\ app' = AppInit(app.store, app.session + 1)
  /\ resume' = None
  /\ paused' = FALSE /\ stopped' = FALSE /\ skip_wait' = FALSE
  /\ resume_checkpoint' = None
  /\ pc' = "idle" /\ i' = 0 /\ resume_within' = None /\ loc' = LocInit
  /\ fg' = "none" /\ ret' = "none" /\ rc' = -1 /\ raised' = "none"
  /\ log' = <<>> /\ mon' = MonInit
  /\ UNCHANGED <<steps, dry_run, fixed_wait_seconds, tick_wait_updates>>

\* The command files of the GUI runs.
FilePool ==
  {<<FreqStep(10), WaitStep(2)>>,
   <<CycleStep(<<CycleRangeSpec(1, 2, 1)>>, 2, Some(1))>>,
   <<ModStep("rise-and-fall", FALSE)>>,
   <<ModStep("rise", TRUE), StopStep>>}

InitGui ==
  /\ steps \in FilePool
  /\ resume = None
  /\ dry_run = FALSE
  /\ fixed_wait_seconds = NoneNum
  /\ tick_wait_updates = FALSE
  /\ app = AppInit(None, 1)
  /\ EngineIdle

FaultsGui == {"ok", "setter"}

Gui ==
  \/ _start
  \/ _maybe_autostart_resume_paused
  \/ WorkerPost
  \/ _drain_queue
  \/ _toggle_pause
  \/ _next_command
  \/ _stop
  \/ _on_close
  \/ AppStart

NextGui == (\E f \in FaultsGui : Engine(f)) \/ EngineQuiet \/ Gui
SpecGui == InitGui /\ [][NextGui]_vars

----------------------------------------------------------------------------
(* Claims about the engine run on its own. *)

Returned == pc = "returned"
NoRepeat == \A n \in 1..Len(steps) : steps[n].kind = "ModStep" => ~steps[n].repeat

\* C1 (as claimed): whenever stopped is set while run_sequence is in progress, at a
\* step boundary, at the pause gate or inside a step, a run that returns returns 4,
\* never 0, with state.resume_checkpoint None.
C1_StopAlwaysReturns4 ==
  (Returned /\ ret = "return" /\ stopped /\ mon.stopAt # "end")
    => (rc = 4 /\ resume_checkpoint = None)

\* C2: if stopped is never set and no call raises, a run over a sequence without a
\* repeat=true ModStep begins the work of the steps from the resume index to the end in
\* order, emits "Done." exactly once and as its last status, returns 0 and leaves
\* state.resume_checkpoint None.
C2_NormalEnd ==
  (Returned /\ ~stopped /\ raised = "none" /\ NoRepeat)
    => /\ ret = "return" /\ rc = 0
       /\ resume_checkpoint = None
       /\ mon.lastStatus = "Done." /\ mon.doneN = 1
       /\ Len(log) = Len(steps) - resume_step_index
       /\ \A n \in 1..Len(log) :
            /\ log[n].i = resume_step_index + n - 1
            /\ log[n].ev = steps[log[n].i + 1].kind

C2_Witness ==
  /\ Returned /\ ~stopped /\ raised = "none" /\ NoRepeat /\ ~dry_run
  /\ Len(steps) = 2 /\ Len(log) = 2 /\ rc = 0

\* C3 (as claimed): once the engine has observed stopped = true it issues no further
\* device setter call before run_sequence returns.
C3_NoSetterAfterStopObserved == ~mon.setAfterStop

\* C5: a non-dry run whose device object was created has, when it ends (return 0,
\* return 4, or an exception from connect or from a setter), attempted close() exactly
\* once, after the last setter call; close() is never attempted twice, and the finally
\* clause changes neither the return code nor the exception of the run.
C5_CloseState ==
  /\ mon.closeN <= 1
  /\ ~mon.setAfterClose
  /\ (Returned /\ ~dry_run /\ raised # "ctor") => (mon.closeN = 1 /\ fg = "closed")
  /\ (Returned /\ (dry_run \/ raised = "ctor")) => mon.closeN = 0

C5_FinallyKeepsResult ==
  pc = "finally" => (ret' = ret /\ rc' = rc /\ raised' = raised)

C5_CloseOnce == [](C5_CloseState) /\ [][C5_FinallyKeepsResult]_vars

C5_Witness ==
  /\ Returned /\ raised = "setter" /\ mon.closeN = 1 /\ mon.anySet
  /\ "close" \in mon.swallowed

\* The resume argument names step idx with a within of one of the kinds.
ResumeNames(idx, kinds) ==
  resume.kind = "dict" /\ resume.step_index = idx /\ resume.within.kind \in kinds

\* The full duration of the WaitStep at the current index.
FullWait == IF ~IsNone(fixed_wait_seconds) THEN Val(fixed_wait_seconds) ELSE Step.seconds

C7_Wait ==
  (pc = "step" /\ pc' = "wait_sleep") =>
    loc'.slRem = IF skip_wait THEN 0
                 ELSE IF ResumeNames(i, {"wait"}) THEN Max(0, resume.within.remaining)
                 ELSE FullWait

C7_FirstPoint ==
  (pc \in {"cy_item", "cy_range"} /\ loc.points = 0 /\ loc'.points = 1) =>
    loc'.last_point = IF ResumeNames(i, {"cycle", "cycle_wait"})
                        THEN <<resume.within.item_i, resume.within.sub_k>>
                        ELSE <<0, 0>>

\* The hold of the given phase at the point of the resume position.
AtResumeHold(phase) ==
  /\ ResumeNames(i, {"cycle_wait"})
  /\ resume.within.phase = phase
  /\ loc.last_point = <<resume.within.item_i, resume.within.sub_k>>

C7_Hold ==
  /\ (pc = "cy_on" /\ pc' = "cy_sleep") =>
       loc'.slRem = IF AtResumeHold("on") THEN Max(0, resume.within.remaining) ELSE on_s
  /\ (pc = "cy_off" /\ pc' = "cy_sleep") =>
       loc'.slRem = IF AtResumeHold("off") THEN Max(0, resume.within.remaining) ELSE off_s

C7_Leg ==
  (pc' = "mod_k" /\ loc'.leg # loc.leg) =>
    loc'.k = IF ResumeNames(i, {"mod"}) /\ resume.within.leg = loc'.leg /\ loc.cycles = 0
               THEN _calc_resume_start_k(resume.within.k, resume.within.updates,
                                         sweep_updates(Step))
               ELSE 0

CycleKinds == {"cycle", "cycle_wait"}

C9_Stored ==
  (resume_checkpoint' # resume_checkpoint /\ resume_checkpoint'.kind = "dict") =>
    LET old == resume_checkpoint
        new == resume_checkpoint'
    IN  /\ new.step_index = i /\ i' = i /\ i < Len(steps)
        /\ old.kind = "dict" =>
             /\ new.step_index >= old.step_index
             /\ (new.step_index = old.step_index /\ old.within.kind \in CycleKinds
                 /\ new.within.kind \in CycleKinds) =>
                  \/ new.within.item_i > old.within.item_i
                  \/ /\ new.within.item_i = old.within.item_i
                     /\ new.within.sub_k >= old.within.sub_k
             /\ (new.step_index = old.step_index /\ old.within.kind = "mod"
                 /\ new.within.kind = "mod" /\ new.within.leg = old.within.leg
                 /\ mon'.ckCycle = mon.ckCycle) =>
                  new.within.k = old.within.k + 1

\* C9: the checkpoints stored in state.resume_checkpoint during one run are monotone:
\* the stored step_index is the index of the step being executed and never decreases
\* (the step index itself never decreases), (item_i, sub_k) never decreases
\* lexicographically within a CycleStep, and k grows by exactly one per checkpoint
\* within one sweep leg.
C9_CheckpointsMonotone == [][C9_Stored /\ i' >= i]_vars

C9_Witness ==
  /\ resume_checkpoint.kind = "dict" /\ resume_checkpoint.step_index = 1
  /\ resume_checkpoint.within.kind = "mod" /\ resume_checkpoint.within.k = 2
  /\ resume_checkpoint.within.leg = "fall" /\ mon.ckCycle = 0

\* C4 (as claimed): an exception raised by on_status, on_progress, on_device_state or
\* on_checkpoint at any invocation never aborts the run: no run ends with an observer's
\* exception leaving run_sequence.
C4_ObserverNeverAborts == raised \notin Observers

\* The order of the points of a CycleStep.
PointBefore(p, q) == p[1] < q[1] \/ (p[1] = q[1] /\ p[2] < q[2])
HasNextPoint(p) == \E q \in CyclePoints(Step) : PointBefore(p, q)
NextPoint(p) ==
  CHOOSE q \in CyclePoints(Step) :
    /\ PointBefore(p, q)
    /\ \A r \in CyclePoints(Step) : PointBefore(p, r) => ~PointBefore(r, q)
LastPoint == CHOOSE q \in CyclePoints(Step) : ~HasNextPoint(q)

ResumePoint == <<resume.within.item_i, resume.within.sub_k>>

\* The first point visited is the resume point, each later one the next point in the
\* original order.
C6_Order ==
  (pc \in {"cy_item", "cy_range"} /\ loc'.points = loc.points + 1) =>
    IF loc.points = 0
      THEN loc'.last_point = ResumePoint
      ELSE HasNextPoint(loc.last_point) /\ loc'.last_point = NextPoint(loc.last_point)

\* The loop ends unstopped only after the last point.
C6_Complete ==
  (pc = "cy_item" /\ pc' = "cy_end" /\ ~stopped) => loc.last_point = LastPoint

\* The holds of a point, begun with no skip pending: at the resume point the hold of
\* the resume phase lasts R and an on hold before a resumed off hold is left out; every
\* other hold is full.
C6_OnHold ==
  (pc = "cy_on" /\ pc' # "cy_on" /\ ~skip_wait) =>
    LET d == IF loc.last_point # ResumePoint THEN Step.on_wait
             ELSE IF resume.within.phase = "on" THEN resume.within.remaining
             ELSE 0
    IN  IF d > 0 THEN pc' = "cy_sleep" /\ loc'.hold = "on" /\ loc'.slRem = d
                 ELSE pc' = "cy_off"

C6_OffHold ==
  (pc = "cy_off" /\ pc' \notin {"cy_off", "finally"} /\ ~skip_wait) =>
    LET full == IF IsNone(Step.off_wait) THEN 0 ELSE Val(Step.off_wait)
        d == IF loc.last_point = ResumePoint /\ resume.within.phase = "off"
               THEN resume.within.remaining ELSE full
    IN  IF d > 0 THEN pc' = "cy_sleep" /\ loc'.hold = "off" /\ loc'.slRem = d
                 ELSE pc' \in {"cy_item", "cy_range"}

\* C6: a CycleStep resumed from {kind: cycle_wait, item_i = I, sub_k = K, phase,
\* remaining = R} visits exactly the points from (I, K) to the end in the original
\* order; with phase = on the on hold of the resume point lasts R, its off hold is
\* full, and every later hold is full; with phase = off the on hold of the resume
\* point is not repeated and its off hold lasts R.
C6_CycleResume == [][C6_Order /\ C6_Complete /\ C6_OnHold /\ C6_OffHold]_vars

C6_Witness ==
  /\ pc = "cy_sleep" /\ loc.hold = "off"
  /\ resume.within.phase = "on" /\ resume.within.remaining = 1
  /\ ResumePoint = <<1, 0>> /\ Len(Step.items) = 3
  /\ loc.last_point = <<2, 0>> /\ loc.points = 3

\* The positions of run_sequence at which the engine has done nothing of step i yet.
BeforeStep == {"start", "boundary", "stopchk1", "gate", "stopchk2", "step"}

\* C8 (as claimed): when the window is closed on an auto-resumed run that has not yet
\* performed any part of the step it resumes in, the persisted checkpoint denotes the
\* position it was resumed from: the same step_index and the same within.
C8_PositionSurvivesIdleResume ==
  (/\ app.closed /\ app.auto
   /\ resume.kind = "dict" /\ resume.within # None
   /\ app.closePc \in BeforeStep /\ i = resume.step_index /\ log = <<>>)
    => /\ app.store.kind = "dict"
       /\ app.store.step_index = resume.step_index
       /\ app.store.within = resume.within

\* C10 (as claimed): once the user has requested stop (App._stop) no checkpoint of the
\* run is in the persisted resume record when the window has been closed, whatever the
\* interleaving of the worker, the queue drain and the close.
C10_StoppedRunNotPersisted == (app.closed /\ stopped) => app.store = None

----------------------------------------------------------------------------
(* A resumed ModStep on its own: one mod step of n updates per leg, resumed  *)
(* from a saved position {leg, k, updates} of any shape.                     *)

MaxSavedK == 5
MaxSavedUpdates == 4
MaxNewUpdates == 4

\* saved k, saved updates, new updates: every small case, zero and negative saved
\* values included, and 40 of 100 updates resumed with 50.
RescalePool ==
  {<<k, u, n>> : k \in (-2)..MaxSavedK, u \in (-1)..MaxSavedUpdates, n \in 1..MaxNewUpdates}
    \cup {<<40, 100, 50>>}

ModWithinOf(leg, k, updates) ==
  [kind |-> "mod", leg |-> leg, k |-> k, updates |-> updates,
   from_hz |-> IF leg = "rise" THEN 10 ELSE 20, to_hz |-> IF leg = "rise" THEN 20 ELSE 10]

InitRescale ==
  /\ \E c \in RescalePool, d \in {"rise", "fall", "rise-and-fall"}, r \in BOOLEAN,
        leg \in {"rise", "fall"} :
       /\ steps = <<ModStepOf(d, r, c[3], 1)>>
       /\ resume = ResumeDict(0, ModWithinOf(leg, c[1], c[2]))
  /\ dry_run = FALSE
  /\ fixed_wait_seconds = NoneNum
  /\ tick_wait_updates = TRUE
  /\ app = NoApp
  /\ EngineInit

EngineRescale(f) ==
  \/ Connect(f)
  \/ BoundaryCheckpoint(f)
  \/ StopCheck1(f)
  \/ StopCheck2(f)
  \/ LoopEnd(f)
  \/ Finally(f)
  \/ SleepPoll(f)
  \/ ModBegin(f)
  \/ SweepUpdate(f)
  \/ ModEnd(f)

EngineRescaleQuiet == PauseGate \/ ModRepeat \/ ModAfter

NextRescale == EngineRescale("ok") \/ EngineRescaleQuiet
SpecRescale == InitRescale /\ [][NextRescale]_vars

\* The saved position of the run's resume argument.
Saved == resume.within

\* A transition in which sweep begins the first leg of the first cycle of the resumed
\* ModStep (runner.py:820 or 825 with apply_resume true).
FirstLegBegins ==
  /\ pc' = "mod_k"
  /\ \/ pc = "step"
     \/ pc = "mod_rep" /\ loc.first_cycle

\* m is the rescaled index k * n / max(1, u) rounded to a nearest integer and clamped
\* to 0..n.
IsRescaled(m, k, u, n) ==
  LET d == Max(1, u)
      q == k * n
      Clamp(r) == IF r < 0 THEN 0 ELSE IF r > n THEN n ELSE r
  IN  \E r \in (-(Abs(q) + 1))..(Abs(q) + 1) :
        /\ 2 * Abs(q - r * d) <= d
        /\ m = Clamp(r)

\* C11: a ModStep resumed with a saved {leg, k, updates} whose leg is the leg being
\* swept starts that leg at k * new_updates / max(1, saved updates) rounded to the
\* nearest index and clamped to 0..new_updates, whatever the saved values are.
C11_RescaledStart ==
  [][(FirstLegBegins /\ loc'.leg = Saved.leg)
       => IsRescaled(loc'.k, Saved.k, Saved.updates, sweep_updates(Step))]_vars

\* 40 of 100 updates resumed with 50 updates: the leg begins at k = 20.
C11_Witness ==
  /\ pc = "mod_k" /\ ~mon.anySet
  /\ Saved.k = 40 /\ Saved.updates = 100 /\ sweep_updates(Step) = 50
  /\ loc.leg = Saved.leg /\ loc.k = 20


----------------------------------------------------------------------------
(* A ModStep followed by a frequency step, started afresh or resumed in a   *)
(* leg, with stop, pause and skip at any time and setters that may raise.   *)

ModPool == {ModStep(d, r) : d \in {"rise", "fall", "rise-and-fall"}, r \in BOOLEAN}

InitMod ==
  /\ steps \in {<<c, FreqStep(10)>> : c \in ModPool}
  /\ resume \in {None, ResumeDict(0, None)}
                  \cup {ResumeDict(0, ModWithinOf(leg, 1, 2)) : leg \in {"rise", "fall"}}
  /\ dry_run = FALSE
  /\ fixed_wait_seconds = NoneNum
  /\ tick_wait_updates = TRUE
  /\ app = NoApp
  /\ EngineInit

FaultsMod == {"ok", "setter"}

EngineMod(f) == EngineRescale(f) \/ DoFreq(f)

NextMod == (\E f \in FaultsMod : EngineMod(f)) \/ EngineRescaleQuiet \/ Caller
SpecMod == InitMod /\ [][NextMod]_vars

\* The positions of run_sequence inside the ModStep's branch.
ModPcs == {"mod_rep", "mod_k", "mod_sleep", "mod_after", "mod_end"}

\* The ModStep of SpecMod, its direction and its number of updates per leg.
TheMod == steps[1]
Dir == TheMod.direction
Upd == sweep_updates(TheMod)

\* The run was resumed inside the given leg of the ModStep.
SavedLeg(leg) ==
  resume.kind = "dict" /\ resume.within.kind = "mod" /\ resume.within.leg = leg

\* A transition in which run_one_cycle begins a cycle with its first leg.
CycleBegins == i = 0 /\ pc \in {"step", "mod_rep"} /\ pc' = "mod_k"

\* A transition in which sweep returns "ok": the leg has made its last update.
LegCompletes ==
  i = 0 /\ pc = "mod_k" /\ loc.k > Upd /\ pc' \in ModPcs /\ (pc' # pc \/ loc' # loc)

\* The within position of the checkpoint sweep stored last, if any.
ModCk == IF resume_checkpoint.kind = "dict" THEN resume_checkpoint.within ELSE None

C12_FirstLeg ==
  CycleBegins =>
    /\ loc'.leg = IF Dir = "rise" THEN "rise"
                  ELSE IF Dir = "fall" THEN "fall"
                  ELSE IF loc.cycles = 0 /\ SavedLeg("fall") THEN "fall" ELSE "rise"
    /\ (Dir = "rise-and-fall" /\ loc.cycles = 0 /\ SavedLeg("fall"))
         => IsRescaled(loc'.k, Saved.k, Saved.updates, Upd)

C12_LegOrder ==
  /\ (LegCompletes /\ Dir = "rise-and-fall" /\ loc.leg = "rise")
       => (pc' = "mod_k" /\ loc'.leg = "fall" /\ loc'.k = 0 /\ loc'.cycles = loc.cycles)
  /\ (LegCompletes /\ (Dir # "rise-and-fall" \/ loc.leg = "fall"))
       => (pc' \in {"mod_rep", "mod_end"} /\ loc'.result = "ok")
  /\ (i = 0 /\ pc \in ModPcs /\ pc' \in ModPcs /\ loc.leg # "" /\ loc'.leg # ""
        /\ loc'.leg # loc.leg)
       => (LegCompletes /\ loc.leg = "rise")

C12_Direction ==
  (i = 0 /\ ModCk.kind = "mod") =>
    /\ ModCk.leg = "rise" => (ModCk.from_hz = TheMod.start_hz /\ ModCk.to_hz = TheMod.end_hz)
    /\ ModCk.leg = "fall" => (ModCk.from_hz = TheMod.end_hz /\ ModCk.to_hz = TheMod.start_hz)
    /\ Dir = "rise" => ModCk.leg = "rise"
    /\ Dir = "fall" => ModCk.leg = "fall"
    /\ (Dir = "rise-and-fall" /\ SavedLeg("fall") /\ ModCk.leg = "rise") => mon.ckCycle >= 1

\* C12: a rise-and-fall cycle sweeps the rise leg and then, from k = 0, the fall leg,
\* and ends after the fall leg; resumed in the fall leg, its first cycle begins with the
\* fall leg at the rescaled k and makes no rise update; direction rise sweeps only
\* start_hz -> end_hz and direction fall only end_hz -> start_hz, one leg per cycle.
C12_RiseThenFall == []C12_Direction /\ [][C12_FirstLeg /\ C12_LegOrder]_vars

\* Resumed in the fall leg with repeat: the first cycle was the fall leg alone, the
\* second has swept its rise leg and is in its fall leg.
C12_Witness ==
  /\ pc = "mod_sleep" /\ i = 0 /\ Dir = "rise-and-fall" /\ SavedLeg("fall")
  /\ loc.cycles = 1 /\ loc.leg = "fall" /\ ModCk.kind = "mod" /\ ModCk.leg = "fall"


\* The engine thread runs: every step of run_sequence that can be taken is taken.
SpecModFair ==
  SpecMod /\ WF_vars((\E f \in FaultsMod : EngineMod(f)) \/ EngineRescaleQuiet)

\* The engine is inside the repeating ModStep.
InRepeat == i = 0 /\ pc \in ModPcs /\ TheMod.repeat

\* The engine leaves the repeating ModStep only for the next step after reporting the
\* skip, for return code 4 with stopped set, or with an exception.
C13_Leave ==
  (InRepeat /\ pc' \notin ModPcs) =>
    \/ pc' = "boundary" /\ i' = 1 /\ loc.result = "skipped" /\ mon'.lastStatus = "Skipped"
    \/ pc' = "finally" /\ ret' = "return" /\ rc' = 4 /\ stopped
    \/ pc' = "finally" /\ ret' = "raise"

\* The first cycle begins at the resume position when its first leg is the saved one;
\* every other cycle begins at k = 0 of the first leg of the direction.
C13_Start ==
  (CycleBegins /\ TheMod.repeat) =>
    IF loc.cycles = 0 /\ SavedLeg(loc'.leg)
      THEN IsRescaled(loc'.k, Saved.k, Saved.updates, Upd)
      ELSE /\ loc'.k = 0
           /\ loc.cycles > 0 => loc'.leg = (IF Dir = "fall" THEN "fall" ELSE "rise")

\* With no stop, skip, pause or device error, the cycle after cycle c is completed.
C13_NextCycle(c) ==
  (InRepeat /\ loc.cycles = c)
    ~> \/ InRepeat /\ loc.cycles > c
       \/ stopped \/ skip_wait \/ paused
       \/ loc.result = "skipped" \/ ret = "raise"

\* C13: a ModStep with repeat = true is left only when a stop or a skip has been
\* observed (or a device call raised); while none occurs its cycles follow one another
\* (up to MaxModCycles); the first cycle begins at the resume position, every later one
\* at k = 0 of its first leg.
C13_RepeatUntilStopOrSkip ==
  /\ [][C13_Leave /\ C13_Start]_vars
  /\ \A c \in 0..(MaxModCycles - 1) : C13_NextCycle(c)

\* A run resumed at k = 1 of the rise leg begins its second cycle at k = 0.
C13_Witness ==
  /\ pc = "mod_k" /\ InRepeat /\ Dir = "rise" /\ SavedLeg("rise") /\ Saved.k = 1
  /\ loc.cycles = 1 /\ loc.k = 0 /\ ~stopped /\ ~skip_wait

\* The engine is inside the ModStep.
InMod == i = 0 /\ pc \in ModPcs

\* The ModStep's result becomes "skipped" exactly when the engine consumes a pending
\* skip (skip_wait true -> false), and the sweep or the repeat loop then ends.
C14_Consumed ==
  InMod => /\ (loc'.result = "skipped" /\ loc.result # "skipped")
                <=> (skip_wait /\ ~skip_wait')
           /\ (skip_wait /\ ~skip_wait') => pc' = "mod_end"

\* After a skip the engine's next step is the boundary of step i+1 with the run going
\* on, or return code 4 when stopped is set as well.
C14_Proceeds ==
  (InMod /\ pc = "mod_end" /\ loc.result = "skipped" /\ pc' # pc) =>
    IF stopped
      THEN pc' = "finally" /\ ret' = "return" /\ rc' = 4
      ELSE /\ pc' = "boundary" /\ i' = i + 1
           /\ ret' = "none" /\ rc' # 4 /\ mon'.lastStatus = "Skipped"

\* C14: a skip pending (stopped false) while the engine is inside a ModStep (before the
\* first update, between updates, during the delay, between cycles) ends the ModStep:
\* the engine consumes it, which clears skip_wait, and goes on with step i+1; the run
\* ends with return code 4 only if a stop is requested too.
C14_SkipEndsMod ==
  /\ [][C14_Consumed /\ C14_Proceeds]_vars
  /\ (InMod /\ skip_wait /\ ~stopped) ~> (i = 1 \/ stopped)

\* A repeating ModStep skipped in its second cycle: the engine is at the boundary of
\* the next step, the skip is cleared and the run goes on.
C14_Witness ==
  /\ pc = "boundary" /\ i = 1 /\ TheMod.repeat /\ mon.lastStatus = "Skipped"
  /\ mon.ckCycle = 1 /\ ~skip_wait /\ ~stopped /\ ret = "none"

----------------------------------------------------------------------------
(* WaitSteps on their own: one or two waits, with or without the fixed-wait  *)
(* override, started afresh or resumed, with stop, pause and skip.           *)

MaxWaitSeconds == 2

WaitWithinPool ==
  {None, ModWithinOf("rise", 1, 2)}
    \cup {[kind |-> "wait", remaining |-> r] : r \in (-1)..(MaxWaitSeconds + 1)}

InitWait ==
  /\ steps \in SeqsUpTo({WaitStep(n) : n \in 0..MaxWaitSeconds}, MaxSteps)
  /\ resume \in {None} \cup {ResumeDict(n, w) : n \in 0..(Len(steps) - 1),
                                                 w \in WaitWithinPool}
  /\ dry_run = FALSE
  /\ fixed_wait_seconds \in {NoneNum, Some(0), Some(1)}
  /\ tick_wait_updates = TRUE
  /\ app = NoApp
  /\ EngineInit

EngineWait(f) ==
  \/ Connect(f)
  \/ BoundaryCheckpoint(f)
  \/ StopCheck1(f)
  \/ StopCheck2(f)
  \/ LoopEnd(f)
  \/ Finally(f)
  \/ WaitBegin(f)
  \/ SleepPoll(f)

NextWait == EngineWait("ok") \/ PauseGate \/ WaitAfter \/ Caller
SpecWait == InitWait /\ [][NextWait]_vars

\* The duration C15 states for the WaitStep at index i.
C15_Duration ==
  IF skip_wait THEN 0
  ELSE IF resume.kind = "dict" /\ i = resume.step_index /\ resume.within.kind = "wait"
    THEN (IF resume.within.remaining < 0 THEN 0 ELSE resume.within.remaining)
  ELSE IF fixed_wait_seconds # NoneNum THEN fixed_wait_seconds[1]
  ELSE steps[i + 1].seconds

\* C15: the duration a WaitStep sleeps for is 0 if a skip is pending when it begins
\* (the skip is cleared); else the checkpoint's remaining (at least 0) if the run was
\* resumed at this step inside a wait; else the fixed-wait override if set; else the
\* step's seconds.
C15_WaitDuration ==
  [][(pc = "step" /\ pc' = "wait_sleep")
       => (loc'.slRem = C15_Duration /\ ~skip_wait')]_vars

\* A wait of 2 resumed with 1 remaining under an override of 0 sleeps for 1.
C15_Witness ==
  /\ pc = "wait_sleep" /\ loc.sinceTick = TickSlices /\ loc.slRem = 1
  /\ resume.kind = "dict" /\ i = resume.step_index /\ resume.within.kind = "wait"
  /\ resume.within.remaining = 1 /\ fixed_wait_seconds = Some(0) /\ Step.seconds = 2

----------------------------------------------------------------------------
(* One step of any kind with the time time.sleep really takes: a paused     *)
(* poll of sleep_with_control lasts 0.05 s or longer.                        *)

InitSleep ==
  /\ steps \in {<<c>> : c \in StepPool}
  /\ resume \in ResumePool(steps)
  /\ dry_run = FALSE
  /\ fixed_wait_seconds = NoneNum
  /\ tick_wait_updates = TRUE
  /\ app = NoApp
  /\ EngineInit

\* The outcomes of a poll of sleep_with_control.
SleepOutcomes == {"ok", "late"}

NextSleep == (\E f \in SleepOutcomes : Engine(f)) \/ EngineQuiet \/ Caller
SpecSleep == InitSleep /\ [][NextSleep]_vars

\* C16 (as claimed): in every interruptible sleep the time spent paused does not count
\* toward the duration: the time remaining of a sleep that is neither stopped nor
\* skipped gets less only in a poll that found the run un-paused, so that the sleep
\* completes only after its whole duration of un-paused time, whatever the pauses.
C16_PausedTimeNotCounted ==
  [][(pc \in SleepPcs /\ pc' = pc /\ ~stopped /\ ~skip_wait /\ paused)
       => loc'.slRem >= loc.slRem]_vars

----------------------------------------------------------------------------
(* The head of the step loop. *)

\* The positions of run_sequence between the loop's head and the work of step i.
HeadPcs == {"stopchk1", "gate", "stopchk2"}

\* The boundary checkpoint of step i is stored before anything else, and stays until
\* the step's work begins.
C17_Checkpoint ==
  (pc \in HeadPcs \cup {"step"})
    => resume_checkpoint = [kind |-> "dict", v |-> 1, step_index |-> i,
                            step_kind |-> steps[i + 1].kind, within |-> None]

\* on_progress(i) has been called when the engine is at the pause gate or beyond, and
\* not before the first stop check; the device calls made so far are those of steps
\* whose progress was reported, and at the head of step i they are of earlier steps.
C17_Progress ==
  /\ pc \in {"boundary", "stopchk1"} => mon.progressed < i
  /\ (Running /\ pc \notin {"start", "boundary", "stopchk1"}) => mon.progressed = i
  /\ mon.setStep <= mon.progressed
  /\ pc \in {"boundary"} \cup HeadPcs => mon.setStep < i

\* The steps of the head follow one another in the claim's order.
C17_Order ==
  /\ (pc = "boundary" /\ pc' # pc /\ i < Len(steps)) => pc' = "stopchk1"
  /\ (pc = "stopchk1" /\ pc' # pc) =>
       IF stopped
         THEN /\ pc' = "finally" /\ ret' = "return" /\ rc' = 4
              /\ resume_checkpoint' = None /\ mon'.progressed = mon.progressed
         ELSE pc' = "gate" /\ mon'.progressed = i
  /\ (pc = "gate" /\ pc' # pc) => (pc' = "stopchk2" /\ (~paused \/ stopped))
  /\ (pc = "stopchk2" /\ pc' # pc) =>
       IF stopped
         THEN pc' = "finally" /\ ret' = "return" /\ rc' = 4 /\ resume_checkpoint' = None
         ELSE pc' = "step"
  /\ pc \in {"boundary"} \cup HeadPcs => (mon'.setStep = mon.setStep /\ fg' = fg)

\* C17: at every step boundary i the engine stores the boundary checkpoint {step_index
\* i, no within}; if stopped it clears the checkpoint and returns 4 without reporting
\* progress, else it calls on_progress; it then blocks while paused and not stopped,
\* checks stopped again, and only then does the work of step i: no device call of step
\* i precedes on_progress(i) or is made while the engine is held at the pause gate.
C17_BoundaryOrder == [](C17_Checkpoint /\ C17_Progress) /\ [][C17_Order]_vars

\* The engine held at the pause gate of the second step: its boundary checkpoint is
\* stored, its progress reported, and the device calls so far are the first step's.
C17_Witness ==
  /\ pc = "gate" /\ paused /\ ~stopped /\ i = 1 /\ mon.progressed = 1 /\ mon.setStep = 0
  /\ resume_checkpoint.step_index = 1 /\ resume_checkpoint.within = None

----------------------------------------------------------------------------
(* run_sequence called with a resume argument of any shape.                  *)

MaxResumeIndex == 3

PyPool ==
  {PyInt(n) : n \in (-1)..MaxResumeIndex}
    \cup {PyFloat(h) : h \in {-1, 2, 3}}
    \cup {PyStr(lit) : lit \in {<<1>>, <<-1>>, <<>>}}
    \cup {PyOther(t) : t \in {"None", "list", "absent"}}

\* The resume arguments: None, a list, and mappings whose v and step_index are of
\* PyPool (one of them an int that run_sequence accepts, or both) and whose within is
\* absent, not a mapping, or a wait position.
RawResumePool ==
  {None, [kind |-> "list"]}
    \cup {[kind |-> "obj", v |-> v, step_index |-> n, within |-> w] :
            v \in {PyInt(1), PyOther("absent")}, n \in PyPool,
            w \in {None, [kind |-> "list"], [kind |-> "wait", remaining |-> 1]}}
    \cup {[kind |-> "obj", v |-> v, step_index |-> PyInt(1), within |-> w] :
            v \in PyPool, w \in {None, [kind |-> "wait", remaining |-> 1]}}

InitResume ==
  /\ steps \in SeqsUpTo({FreqStep(10), WaitStep(2)}, MaxSteps)
  /\ resume \in RawResumePool
  /\ dry_run = FALSE
  /\ fixed_wait_seconds = NoneNum
  /\ tick_wait_updates = TRUE
  /\ app = NoApp
  /\ EngineInit

NextResume ==
  EngineWait("ok") \/ DoFreq("ok") \/ PauseGate \/ WaitAfter \/ Caller
SpecResume == InitResume /\ [][NextResume]_vars

\* The entry x is the integer n / is an integer (an int, or a float without fraction).
PyIs(x, n) == (x.py = "int" /\ x.n = n) \/ (x.py = "float" /\ x.halves = 2 * n)
PyIsInteger(x) == x.py = "int" \/ (x.py = "float" /\ x.halves % 2 = 0)

\* The resume values C18 names invalid: not a mapping, a version other than 1, a
\* step_index that is not an integer.
C18_Invalid ==
  \/ resume.kind # "obj"
  \/ resume.v.py # "absent" /\ ~PyIs(resume.v, 1)
  \/ resume.step_index.py # "absent" /\ ~PyIsInteger(resume.step_index)

\* C18 (as claimed): resume = None, a non-mapping, a version other than 1 or a
\* non-integer step_index make the run start at index 0 with no within; a negative
\* step_index counts as 0; with a step_index >= len(steps) the run executes no step
\* and returns 0.
C18_InvalidResumeStartsAtZero ==
  /\ pc = "start" =>
       /\ C18_Invalid => (i = 0 /\ resume_within = None)
       /\ (~C18_Invalid /\ resume.step_index.py = "int" /\ resume.step_index.n < 0) => i = 0
  /\ (pc = "returned" /\ ~C18_Invalid /\ resume.step_index.py = "int"
        /\ resume.step_index.n >= Len(steps))
       => (rc = 0 /\ log = <<>> /\ ~mon.anySet /\ mon.progressed = -1)

\* What holds of the code: C18 with "invalid" read as "int() raises" for the version and
\* the step_index; a value that int() converts is used as converted.
C18_Rejected ==
  \/ resume.kind # "obj"
  \/ py_int(resume.v, 1) = <<>> \/ py_int(resume.step_index, 0) = <<>>
  \/ py_int(resume.v, 1) # <<1>>

C18_AsConverted ==
  /\ pc = "start" =>
       /\ C18_Rejected => (i = 0 /\ resume_within = None)
       /\ ~C18_Rejected =>
            LET n == py_int(resume.step_index, 0)[1]
            IN  i = (IF n < 0 THEN 0 ELSE n)
  /\ (pc = "returned" /\ ~C18_Rejected /\ py_int(resume.step_index, 0)[1] >= Len(steps))
       => (rc = 0 /\ log = <<>> /\ ~mon.anySet /\ mon.progressed = -1)

----------------------------------------------------------------------------
(* A CycleStep of one range, as parse_csv_commands builds it (start # end,   *)
(* the step's sign turned to the direction start -> end), run from its      *)
(* first point without stop or skip.                                         *)

MaxHz == 4
MaxStepHz == 3

RangePool ==
  {CycleRangeSpec(a, b, IF b < a THEN -s ELSE s) :
     a \in 0..MaxHz, b \in 0..MaxHz, s \in 1..MaxStepHz} \ 
  {CycleRangeSpec(a, a, s) : a \in 0..MaxHz, s \in 1..MaxStepHz}

InitRange ==
  /\ steps \in {<<CycleStep(<<r>>, 1, off)>> : r \in RangePool, off \in {NoneNum, Some(1)}}
  /\ resume = None
  /\ dry_run = FALSE
  /\ fixed_wait_seconds = NoneNum
  /\ tick_wait_updates = TRUE
  /\ app = NoApp
  /\ EngineInit

NextRange == EngineCycle("ok") \/ EngineCycleQuiet \/ TogglePause
SpecRange == InitRange /\ [][NextRange]_vars

\* The range of SpecRange and the cycle checkpoint stored last.
TheRange == steps[1].items[1]
RangeCk == IF resume_checkpoint.kind = "dict" THEN resume_checkpoint.within ELSE None

\* The number of k >= 0 for which a + k * s is not beyond b: floor(|b - a| / |s|) + 1.
C19_Count ==
  Cardinality({k \in 0..Abs(TheRange.end_hz - TheRange.start_hz) :
                 k * Abs(TheRange.step_hz) <= Abs(TheRange.end_hz - TheRange.start_hz)})

\* The point visited last is a + k * step with k its index; the points are visited in
\* the order of their indices from 0; none is beyond b.
C19_Points ==
  (pc \notin {"start", "finally", "returned"} /\ RangeCk.kind = "cycle") =>
    /\ RangeCk.freq_hz = TheRange.start_hz + RangeCk.sub_k * TheRange.step_hz
    /\ RangeCk.sub_k = loc.points - 1
    /\ RangeCk.sub_n = C19_Count
    /\ loc.points = 1 => RangeCk.freq_hz = TheRange.start_hz
    /\ IF TheRange.step_hz > 0 THEN RangeCk.freq_hz <= TheRange.end_hz
                               ELSE RangeCk.freq_hz >= TheRange.end_hz

\* C19: for a range {start a, end b, step s} with a # b and s # 0 the number of points
\* visited from sub_k = 0 is floor(|b - a| / |s|) + 1; the points are a + k * s for
\* k = 0..count-1 in this order, the first is a, and none is beyond b.
C19_RangePoints ==
  /\ C19_Points
  /\ pc = "cy_end" => loc.points = C19_Count

\* A descending range 4..0 by 3 has been run: 2 points, the last one of index 1.
C19_Witness ==
  /\ pc = "cy_end" /\ TheRange.start_hz = 4 /\ TheRange.end_hz = 0 /\ TheRange.step_hz = -3
  /\ loc.points = 2 /\ loc.last_point = <<0, 1>>

----------------------------------------------------------------------------
(* The duration estimator (commands.py:776-848), applied to step sequences  *)
(* as parse_csv_commands builds them. Durations are integers; Inf stands    *)
(* for float('inf'), which the parser accepts as a number ("wait,inf").     *)

Inf == 1000000

\* Float addition and multiplication of durations >= 0 with Inf absorbing.
est_add(a, b) == IF a >= Inf \/ b >= Inf THEN Inf ELSE a + b
est_mul(n, a) == IF a >= Inf THEN Inf ELSE n * a

RECURSIVE _cycle_items_count(_)
_cycle_items_count(items) ==
  IF items = <<>> THEN 0
  ELSE ItemCount(Head(items)) + _cycle_items_count(Tail(items))

\* estimate_step_duration ignoring fixed_wait for the waits of a CycleStep.
estimate_step_duration_NoOverride(s, fixed_wait) ==
  CASE s.kind = "WaitStep" ->
         IF ~IsNone(fixed_wait) THEN Max(0, Val(fixed_wait)) ELSE Max(0, s.seconds)
    [] s.kind = "CycleStep" ->
         LET count == _cycle_items_count(s.items)
             _eff_wait(w) == IF IsNone(w) THEN 0 ELSE IF Val(w) <= 0 THEN 0 ELSE Val(w)
         IN  IF count <= 0 THEN 0
             ELSE est_mul(count, est_add(_eff_wait(Some(s.on_wait)), _eff_wait(s.off_wait)))
    [] s.kind = "ModStep" ->
         IF s.repeat THEN Inf
         ELSE Max(0, est_mul(IF s.direction = "rise-and-fall" THEN 2 ELSE 1, s.time_s))
    [] OTHER -> 0

\* estimate_step_duration counting one leg for every ModStep.
estimate_step_duration_OneLeg(s, fixed_wait) ==
  CASE s.kind = "WaitStep" ->
         IF ~IsNone(fixed_wait) THEN Max(0, Val(fixed_wait)) ELSE Max(0, s.seconds)
    [] s.kind = "CycleStep" ->
         LET count == _cycle_items_count(s.items)
             _eff_wait(w) == IF IsNone(w) THEN 0
                             ELSE IF Val(w) <= 0 THEN 0
                             ELSE IF ~IsNone(fixed_wait) THEN Max(0, Val(fixed_wait))
                             ELSE Max(0, Val(w))
         IN  IF count <= 0 THEN 0
             ELSE est_mul(count, est_add(_eff_wait(Some(s.on_wait)), _eff_wait(s.off_wait)))
    [] s.kind = "ModStep" ->
         IF s.repeat THEN Inf
         ELSE Max(0, est_mul(1, s.time_s))
    [] OTHER -> 0

\* commands.py:776-828.
estimate_step_duration(s, fixed_wait) ==
  CASE s.kind = "WaitStep" ->
         IF ~IsNone(fixed_wait) THEN Max(0, Val(fixed_wait)) ELSE Max(0, s.seconds)
    [] s.kind = "CycleStep" ->
         LET count == _cycle_items_count(s.items)
             _eff_wait(w) == IF IsNone(w) THEN 0
                             ELSE IF Val(w) <= 0 THEN 0
                             ELSE IF ~IsNone(fixed_wait) THEN Max(0, Val(fixed_wait))
                             ELSE Max(0, Val(w))
         IN  IF count <= 0 THEN 0
             ELSE est_mul(count, est_add(_eff_wait(Some(s.on_wait)), _eff_wait(s.off_wait)))
    [] s.kind = "ModStep" ->
         IF s.repeat THEN Inf
         ELSE Max(0, est_mul(IF s.direction = "rise-and-fall" THEN 2 ELSE 1, s.time_s))
    [] OTHER -> 0

\* commands.py:831-848: the sum over steps[start_index:], Inf as soon as a step's is.
RECURSIVE estimate_remaining_run_time(_, _, _)
estimate_remaining_run_time(ss, start_index, fixed_wait) ==
  IF start_index >= Len(ss) THEN 0
  ELSE LET d == estimate_step_duration(ss[start_index + 1], fixed_wait)
       IN  IF d >= Inf THEN Inf
           ELSE est_add(d, estimate_remaining_run_time(ss, start_index + 1, fixed_wait))

EstStepPool ==
  {FreqStep(10), StopStep, WaitStep(-1), WaitStep(0), WaitStep(2), WaitStep(Inf),
   CycleStep(<<Literal(5), CycleRangeSpec(1, 3, 1)>>, 2, NoneNum),
   CycleStep(<<Literal(5), CycleRangeSpec(3, 1, -2)>>, 0, Some(1)),
   CycleStep(<<Literal(5)>>, 2, Some(0)),
   ModStep("rise-and-fall", FALSE), ModStep("rise", FALSE), ModStep("fall", TRUE)}

InitEst ==
  /\ steps \in SeqsUpTo(EstStepPool, MaxSteps)
  /\ resume = None
  /\ dry_run = TRUE
  /\ fixed_wait_seconds \in {NoneNum, Some(0), Some(1)}
  /\ tick_wait_updates = TRUE
  /\ app = NoApp
  /\ EngineInit

\* runner.py:326: the estimate for the next start index is computed and recorded.
Estimate ==
  /\ pc = "start"
  /\ Len(log) <= Len(steps)
  /\ log' = Append(log, [ev |-> "estimate", i |-> Len(log),
                         est |-> estimate_remaining_run_time(steps, Len(log),
                                                             fixed_wait_seconds)])
  /\ UNCHANGED <<inputVars, flagVars, engVars, resume_checkpoint, mon>>

NextEst == Estimate
SpecEst == InitEst /\ [][NextEst]_vars

\* Is some step at index >= n a ModStep with repeat = true?
RepeatFrom(n) ==
  \E k \in (n + 1)..Len(steps) : steps[k].kind = "ModStep" /\ steps[k].repeat

\* The per-step contribution C20 states.
C20_Wait(w) ==
  IF w <= 0 THEN 0 ELSE IF fixed_wait_seconds # NoneNum THEN fixed_wait_seconds[1] ELSE w

C20_Contribution(s) ==
  IF s.kind = "WaitStep"
    THEN (IF fixed_wait_seconds # NoneNum THEN Max(0, fixed_wait_seconds[1])
          ELSE Max(0, s.seconds))
  ELSE IF s.kind = "CycleStep"
    THEN est_mul(_cycle_items_count(s.items),
                 est_add(C20_Wait(s.on_wait),
                         IF s.off_wait = NoneNum THEN 0 ELSE C20_Wait(s.off_wait[1])))
  ELSE IF s.kind = "ModStep" /\ ~s.repeat
    THEN est_mul(IF s.direction = "rise-and-fall" THEN 2 ELSE 1, s.time_s)
  ELSE 0

RECURSIVE C20_Sum(_)
C20_Sum(n) ==
  IF n >= Len(steps) THEN 0 ELSE est_add(C20_Contribution(steps[n + 1]), C20_Sum(n + 1))

\* C20 (as claimed): the estimate from index i is +inf if and only if some step at
\* index >= i is a ModStep with repeat = true, and otherwise the sum of the steps'
\* contributions.
C20_InfIffRepeat ==
  \A n \in 1..Len(log) :
    /\ log[n].est = Inf <=> RepeatFrom(log[n].i)
    /\ ~RepeatFrom(log[n].i) => log[n].est = C20_Sum(log[n].i)

\* C20 (amended): the estimate from index i is +inf if some step at index >= i is a
\* ModStep with repeat = true, and otherwise the sum of the contributions of the steps
\* at index >= i: 0 for freq and stop; the override if set, else the seconds, floored
\* at 0, for a wait; count(items) * (on + off) for a cycle, a wait absent or <= 0
\* counting 0 and a wait > 0 counting as the override if set; time_s * legs for a mod;
\* the sum is +inf exactly when one of these contributions is (an infinite wait).
C20_EstimateIsSum ==
  \A n \in 1..Len(log) :
    /\ RepeatFrom(log[n].i) => log[n].est = Inf
    /\ ~RepeatFrom(log[n].i) => log[n].est = C20_Sum(log[n].i)
    /\ log[n].est = Inf <=>
         \/ RepeatFrom(log[n].i)
         \/ \E k \in (log[n].i + 1)..Len(steps) : C20_Contribution(steps[k]) = Inf

\* An infinite estimate for a sequence without a repeating ModStep: an infinite wait
\* after a cycle, no override set.
C20_Witness ==
  /\ Len(log) >= 1 /\ log[1].est = Inf /\ ~RepeatFrom(0)
  /\ Len(steps) = 2 /\ steps[1].kind = "CycleStep" /\ steps[2] = WaitStep(Inf)

----------------------------------------------------------------------------
(* The command compiler (commands.py): parse_csv_commands reads the rows of *)
(* a file into raw steps and _expand_steps flattens them. A row is its      *)
(* first cell and the cells after it; a cell is a number, a bare word, a    *)
(* key=value pair, a bracketed list, an options object or blank.            *)

Num(v) == [tok |-> "num", v |-> v]
Word(w) == [tok |-> "word", w |-> w]
KV(k, c) == [tok |-> "kv", k |-> k, c |-> c]
ListTok(elems) == [tok |-> "list", elems |-> elems]
OptsTok(o) == [tok |-> "opts", o |-> o]
Blank == [tok |-> "blank"]
\* A dict element of a cycle list: start, end and step are optional, extra holds
\* the names of the other keys.
RangeObj(start, end, step, extra) ==
  [tok |-> "dict", start |-> start, end |-> end, step |-> step, extra |-> extra]
Row(cmd, cells) == [cmd |-> cmd, cells |-> cells]

\* The steps as the compiler builds them, with their options and source_line.
FreqStepAt(hz, options, source_line) ==
  [kind |-> "FreqStep", hz |-> hz, options |-> options, source_line |-> source_line]
WaitStepAt(seconds, source_line) ==
  [kind |-> "WaitStep", seconds |-> seconds, source_line |-> source_line]
StopStepAt(source_line) == [kind |-> "StopStep", source_line |-> source_line]
_FreqListRaw(freqs_hz, options, source_line) ==
  [kind |-> "_FreqListRaw", freqs_hz |-> freqs_hz, options |-> options,
   source_line |-> source_line]

\* The rows after the list record at index i (1-based) that _expand_steps takes
\* as its template, every FreqStep counting as the pause row.
legacy_pattern_AnyFreqPauses(raw_steps, h) ==
  LET n == Len(raw_steps)
      has_on == h + 1 <= n /\ raw_steps[h + 1].kind = "WaitStep"
      j2 == IF has_on THEN h + 2 ELSE h + 1
      has_pause == j2 <= n /\ raw_steps[j2].kind = "FreqStep"
      j3 == IF has_pause THEN j2 + 1 ELSE j2
      has_off == has_pause /\ j3 <= n /\ raw_steps[j3].kind = "WaitStep"
  IN  [on_wait |-> IF has_on THEN <<raw_steps[h + 1]>> ELSE <<>>,
       pause_freq |-> IF has_pause THEN <<raw_steps[j2]>> ELSE <<>>,
       off_wait |-> IF has_off THEN <<raw_steps[j3]>> ELSE <<>>,
       j |-> IF has_off THEN j3 + 1 ELSE j3]

\* commands.py:382-395: the rows after the list record at index h (1-based) that
\* are its template: an optional wait, then an optional FreqStep of 0 Hz and, only
\* after that one, an optional wait; j is the index of the first row not taken.
legacy_pattern(raw_steps, h) ==
  LET n == Len(raw_steps)
      has_on == h + 1 <= n /\ raw_steps[h + 1].kind = "WaitStep"
      j2 == IF has_on THEN h + 2 ELSE h + 1
      has_pause == j2 <= n /\ raw_steps[j2].kind = "FreqStep" /\ raw_steps[j2].hz = 0
      j3 == IF has_pause THEN j2 + 1 ELSE j2
      has_off == has_pause /\ j3 <= n /\ raw_steps[j3].kind = "WaitStep"
  IN  [on_wait |-> IF has_on THEN <<raw_steps[h + 1]>> ELSE <<>>,
       pause_freq |-> IF has_pause THEN <<raw_steps[j2]>> ELSE <<>>,
       off_wait |-> IF has_off THEN <<raw_steps[j3]>> ELSE <<>>,
       j |-> IF has_off THEN j3 + 1 ELSE j3]

\* commands.py:397-404: the group emitted for the frequency f of the list record s.
legacy_group(s, f, p) ==
  <<FreqStepAt(f, s.options, s.source_line)>> \o p.on_wait \o p.pause_freq \o p.off_wait

RECURSIVE legacy_groups(_, _, _)
legacy_groups(s, p, k) ==
  IF k > Len(s.freqs_hz) THEN <<>>
  ELSE legacy_group(s, s.freqs_hz[k], p) \o legacy_groups(s, p, k + 1)

\* The flat branch losing a FreqStep of 0 Hz, as if it were always a template row.
flat_step_DropsPause(s) ==
  IF s.kind = "FreqStep" /\ s.hz = 0 THEN <<>> ELSE <<s>>

\* commands.py:409-411: a flat step is appended as it is.
flat_step(s) == <<s>>

RECURSIVE expand_from(_, _)
expand_from(raw_steps, h) ==
  IF h > Len(raw_steps) THEN <<>>
  ELSE IF raw_steps[h].kind = "_FreqListRaw"
    THEN LET p == legacy_pattern(raw_steps, h)
         IN  legacy_groups(raw_steps[h], p, 1) \o expand_from(raw_steps, p.j)
    ELSE flat_step(raw_steps[h]) \o expand_from(raw_steps, h + 1)

_expand_steps(raw_steps) == expand_from(raw_steps, 1)

\* str.lower() on the spellings the rows of the model use.
lower(s) ==
  CASE s = "WAIT" -> "wait" [] s = "Freq" -> "freq" [] s = "Sweep" -> "sweep"
    [] s = "Rise" -> "rise" [] s = "TRUE" -> "true" [] s = "Repeat" -> "repeat"
    [] OTHER -> s

\* str.replace("_", "-") on the spellings the rows of the model use.
underscores_to_dashes(s) ==
  CASE s = "rise_and_fall" -> "rise-and-fall" [] s = "update_ms" -> "update-ms"
    [] s = "pause_hz" -> "pause-hz" [] OTHER -> s

\* The result of parsing: the raw steps of the row, or the exception raised, with
\* the line and list position its message names (<<>> when it names none).
Parsed(raw) == [ok |-> TRUE, raw |-> raw]
ParseError(line, pos, what) == [ok |-> FALSE, line |-> line, pos |-> pos, what |-> what]

\* commands.py:112-117: float(s) succeeds.
_is_number(c) == c.tok = "num"

\* commands.py:119-125: <<b>>, or <<>> when _parse_bool raises.
_parse_bool(c) ==
  CASE c.tok = "num" -> IF c.v = 1 THEN <<TRUE>> ELSE IF c.v = 0 THEN <<FALSE>> ELSE <<>>
    [] c.tok = "word" ->
         IF lower(c.w) \in {"true", "yes", "y", "on"} THEN <<TRUE>>
         ELSE IF lower(c.w) \in {"false", "no", "n", "off"} THEN <<FALSE>>
         ELSE <<>>
    [] OTHER -> <<>>

\* commands.py:128-139: <<direction>>, or <<>> when _normalize_direction raises.
_normalize_direction(c) ==
  IF c.tok # "word" THEN <<>>
  ELSE LET v == underscores_to_dashes(lower(c.w))
       IN  IF v \in {"rise", "up", "inc", "increase"} THEN <<"rise">>
           ELSE IF v \in {"fall", "down", "dec", "decrease"} THEN <<"fall">>
           ELSE IF v \in {"rise-and-fall", "rise-fall", "up-down", "up-and-down",
                          "riseandfall"} THEN <<"rise-and-fall">>
           ELSE <<>>

\* commands.py:302-365: the options object of the cells from j on: <<options>>
\* ("{}" when there is none), or <<>> when _parse_json_options raises (anything but
\* one well-formed object).
_parse_json_options(cells, j) ==
  LET rest == SelectSeq(SubSeq(cells, j, Len(cells)), LAMBDA c : c.tok # "blank")
  IN  IF rest = <<>> THEN <<"{}">>
      ELSE IF Len(rest) = 1 /\ rest[1].tok = "opts" /\ rest[1].o # "malformed"
        THEN <<rest[1].o>>
      ELSE <<>>

\* commands.py:470-474
parse_wait(row, idx) ==
  IF Len(row.cells) < 1 \/ ~_is_number(row.cells[1])
    THEN ParseError(<<idx>>, <<>>, "wait expects seconds as number")
  ELSE Parsed(<<WaitStepAt(row.cells[1].v, idx)>>)

\* commands.py:180-195 (_parse_number_list) and 480-496
parse_freq(row, idx) ==
  IF Len(row.cells) < 1
    THEN ParseError(<<idx>>, <<>>, "freq expects <Hz> or <[list]>")
  ELSE LET token == row.cells[1]
           opts == _parse_json_options(row.cells, 2)
       IN  IF opts = <<>> THEN ParseError(<<idx>>, <<>>, "invalid JSON options")
           ELSE IF token.tok = "list"
             THEN IF \E k \in 1..Len(token.elems) : token.elems[k].tok # "num"
                    THEN ParseError(<<idx>>, <<>>, "list element is not a number")
                  ELSE IF token.elems = <<>>
                    THEN ParseError(<<idx>>, <<>>, "frequency list is empty")
                  ELSE Parsed(<<_FreqListRaw([k \in 1..Len(token.elems) |-> token.elems[k].v],
                                             opts[1], idx)>>)
           ELSE IF ~_is_number(token)
             THEN ParseError(<<idx>>, <<>>, "freq expects a number (Hz) or list")
           ELSE Parsed(<<FreqStepAt(token.v, opts[1], idx)>>)

CycleStepAt(items, on_wait, off_wait, pause_hz, adaptive_voltage, options, source_line) ==
  [kind |-> "CycleStep", items |-> items, on_wait |-> on_wait, off_wait |-> off_wait,
   pause_hz |-> pause_hz, adaptive_voltage |-> adaptive_voltage, options |-> options,
   source_line |-> source_line]

\* The range normalisation keeping the sign the user wrote for step.
normalized_range_KeepsSign(start_hz, end_hz, step_hz) ==
  CycleRangeSpec(start_hz, end_hz, step_hz)

\* commands.py:285-289: the step's sign is turned to the direction of travel.
normalized_range(start_hz, end_hz, step_hz) ==
  CycleRangeSpec(start_hz, end_hz, IF end_hz < start_hz THEN -Abs(step_hz) ELSE Abs(step_hz))

\* commands.py:243-295: the element x at position pos of a cycle list.
cycle_item(x, idx, pos) ==
  CASE x.tok = "num" ->
         IF Abs(x.v) >= Inf
           THEN ParseError(<<idx>>, <<pos>>, "frequency must be a finite number")
         ELSE Parsed(<<Literal(x.v)>>)
    [] x.tok = "dict" ->
         IF x.extra # {}
           THEN ParseError(<<idx>>, <<pos>>, "unknown field(s)")
         ELSE IF x.start = <<>> \/ x.end = <<>>
           THEN ParseError(<<idx>>, <<pos>>, "range must contain 'start' and 'end'")
         ELSE IF Abs(x.start[1]) >= Inf \/ Abs(x.end[1]) >= Inf
           THEN ParseError(<<idx>>, <<pos>>, "range start/end must be finite numbers")
         ELSE LET step_hz == IF x.step = <<>> THEN 1 ELSE x.step[1]
              IN  IF Abs(step_hz) >= Inf
                    THEN ParseError(<<idx>>, <<pos>>, "range step must be a finite number")
                  ELSE IF step_hz = 0
                    THEN ParseError(<<idx>>, <<pos>>, "range step must not be 0")
                  ELSE IF x.start[1] = x.end[1] THEN Parsed(<<Literal(x.start[1])>>)
                  ELSE Parsed(<<normalized_range(x.start[1], x.end[1], step_hz)>>)
    [] OTHER ->
         ParseError(<<idx>>, <<pos>>, "must be either a number (Hz) or a range object")

\* commands.py:198-299: the items of the list token, or the error of the first
\* element that has one.
RECURSIVE _parse_cycle_items(_, _, _)
_parse_cycle_items(elems, idx, pos) ==
  IF pos > Len(elems)
    THEN IF elems = <<>> THEN ParseError(<<idx>>, <<>>, "cycle list is empty")
         ELSE Parsed(<<>>)
  ELSE LET here == cycle_item(elems[pos], idx, pos)
           rest == _parse_cycle_items(elems, idx, pos + 1)
       IN  IF ~here.ok THEN here
           ELSE IF ~rest.ok THEN rest
           ELSE Parsed(here.raw \o rest.raw)

\* commands.py:514-565: the cells after the list, from j on: on/off/pause_hz and
\* adaptive-voltage by key, on then off by position, up to the options.
RECURSIVE cycle_params(_, _, _, _)
cycle_params(cells, j, p, idx) ==
  IF j > Len(cells) THEN [ok |-> TRUE, p |-> p, j |-> j]
  ELSE LET c == cells[j]
           k == IF c.tok = "kv" THEN underscores_to_dashes(lower(c.k)) ELSE ""
       IN  CASE c.tok = "blank" -> cycle_params(cells, j + 1, p, idx)
             [] c.tok = "kv" ->
                  IF k \in {"adaptive-voltage", "adaptive", "adaptivevoltage"}
                    THEN IF _parse_bool(c.c) = <<>>
                           THEN ParseError(<<>>, <<>>, "invalid boolean")
                         ELSE cycle_params(cells, j + 1,
                                [p EXCEPT !.adaptive_voltage = _parse_bool(c.c)[1]], idx)
                  ELSE IF ~_is_number(c.c)
                    THEN ParseError(<<idx>>, <<>>, "cycle parameter must be a number")
                  ELSE IF k \in {"on", "wait", "hold", "on-wait", "onwait"}
                    THEN cycle_params(cells, j + 1, [p EXCEPT !.on_wait = <<c.c.v>>], idx)
                  ELSE IF k \in {"off", "pause", "off-wait", "offwait", "pause-wait",
                                 "pausewait"}
                    THEN cycle_params(cells, j + 1, [p EXCEPT !.off_wait = <<c.c.v>>], idx)
                  ELSE IF k \in {"pause-hz", "pause-freq", "off-hz", "off-freq"}
                    THEN cycle_params(cells, j + 1, [p EXCEPT !.pause_hz = c.c.v], idx)
                  ELSE ParseError(<<idx>>, <<>>, "unknown cycle parameter")
             [] c.tok = "num" ->
                  IF p.on_wait = <<>>
                    THEN cycle_params(cells, j + 1, [p EXCEPT !.on_wait = <<c.v>>], idx)
                  ELSE IF p.off_wait = <<>>
                    THEN cycle_params(cells, j + 1, [p EXCEPT !.off_wait = <<c.v>>], idx)
                  ELSE ParseError(<<idx>>, <<>>, "too many numeric args for cycle")
             [] OTHER -> [ok |-> TRUE, p |-> p, j |-> j]

\* commands.py:498-581
parse_cycle(row, idx) ==
  IF Len(row.cells) < 1 \/ row.cells[1].tok # "list"
    THEN ParseError(<<idx>>, <<>>, "cycle expects a frequency list")
  ELSE LET items == _parse_cycle_items(row.cells[1].elems, idx, 1)
           ps == cycle_params(row.cells, 2,
                              [on_wait |-> <<>>, off_wait |-> <<>>, pause_hz |-> 0,
                               adaptive_voltage |-> FALSE], idx)
           opts == _parse_json_options(row.cells, ps.j)
       IN  IF ~items.ok THEN items
           ELSE IF ~ps.ok THEN ps
           ELSE IF opts = <<>> THEN ParseError(<<idx>>, <<>>, "invalid JSON options")
           ELSE Parsed(<<CycleStepAt(items.raw,
                                     IF ps.p.on_wait = <<>> THEN 0 ELSE ps.p.on_wait[1],
                                     ps.p.off_wait, ps.p.pause_hz, ps.p.adaptive_voltage,
                                     opts[1], idx)>>)

\* ModStep as the compiler builds it; time_s is held in milliseconds, so that the
\* time-ms keys (value / 1000 seconds) stay whole numbers.
ModStepAt(start_hz, end_hz, time_s, update_ms, direction, adaptive_voltage, repeat,
          options, source_line) ==
  [kind |-> "ModStep", start_hz |-> start_hz, end_hz |-> end_hz, time_s |-> time_s,
   update_ms |-> update_ms, direction |-> direction,
   adaptive_voltage |-> adaptive_voltage, repeat |-> repeat, options |-> options,
   source_line |-> source_line]

\* A duration given in seconds, in the unit of ModStepAt's time_s.
Seconds(v) == 1000 * v

\* The fields of a mod row before the defaults: none given.
ModFieldsInit ==
  [start_hz |-> <<>>, end_hz |-> <<>>, time_s |-> <<>>, update_ms |-> <<>>,
   direction |-> <<>>, adaptive_voltage |-> <<>>, repeat |-> <<>>, positional |-> <<>>]

\* commands.py:597-646: the cells of a mod row from j on, up to the options: a
\* key=value cell sets its field, any other cell is positional.
RECURSIVE mod_params(_, _, _, _)
mod_params(cells, j, p, idx) ==
  IF j > Len(cells) THEN [ok |-> TRUE, p |-> p, j |-> j]
  ELSE LET c == cells[j]
           k == IF c.tok = "kv" THEN underscores_to_dashes(lower(c.k)) ELSE ""
       IN  CASE c.tok = "blank" -> mod_params(cells, j + 1, p, idx)
             [] c.tok = "opts" -> [ok |-> TRUE, p |-> p, j |-> j]
             [] c.tok = "kv" ->
                  IF k \in {"start", "from", "start-hz", "f-start"}
                    THEN IF ~_is_number(c.c)
                           THEN ParseError(<<idx>>, <<>>, "mod parameter must be a number")
                         ELSE mod_params(cells, j + 1, [p EXCEPT !.start_hz = <<c.c.v>>], idx)
                  ELSE IF k \in {"end", "to", "end-hz", "f-end"}
                    THEN IF ~_is_number(c.c)
                           THEN ParseError(<<idx>>, <<>>, "mod parameter must be a number")
                         ELSE mod_params(cells, j + 1, [p EXCEPT !.end_hz = <<c.c.v>>], idx)
                  ELSE IF k \in {"time", "time-s", "s", "sec", "secs", "second", "seconds",
                                 "cycle", "cycle-s", "duration", "duration-s"}
                    THEN IF ~_is_number(c.c)
                           THEN ParseError(<<idx>>, <<>>, "mod parameter must be a number")
                         ELSE mod_params(cells, j + 1,
                                [p EXCEPT !.time_s = <<Seconds(c.c.v)>>], idx)
                  ELSE IF k \in {"time-ms", "ms", "cycle-ms", "duration-ms"}
                    THEN IF ~_is_number(c.c)
                           THEN ParseError(<<idx>>, <<>>, "mod parameter must be a number")
                         ELSE mod_params(cells, j + 1, [p EXCEPT !.time_s = <<c.c.v>>], idx)
                  ELSE IF k \in {"update", "update-ms", "interval", "interval-ms", "tick",
                                 "tick-ms", "step", "step-ms"}
                    THEN IF ~_is_number(c.c)
                           THEN ParseError(<<idx>>, <<>>, "mod parameter must be a number")
                         ELSE mod_params(cells, j + 1, [p EXCEPT !.update_ms = <<c.c.v>>], idx)
                  ELSE IF k \in {"direction", "dir"}
                    THEN IF _normalize_direction(c.c) = <<>>
                           THEN ParseError(<<>>, <<>>, "invalid direction")
                         ELSE mod_params(cells, j + 1,
                                [p EXCEPT !.direction = _normalize_direction(c.c)], idx)
                  ELSE IF k \in {"adaptive-voltage", "adaptive", "adaptivevoltage",
                                 "adaptive-voltage?"}
                    THEN IF _parse_bool(c.c) = <<>>
                           THEN ParseError(<<>>, <<>>, "invalid boolean")
                         ELSE mod_params(cells, j + 1,
                                [p EXCEPT !.adaptive_voltage = _parse_bool(c.c)], idx)
                  ELSE IF k \in {"repeat", "loop"}
                    THEN IF _parse_bool(c.c) = <<>>
                           THEN ParseError(<<>>, <<>>, "invalid boolean")
                         ELSE mod_params(cells, j + 1,
                                [p EXCEPT !.repeat = _parse_bool(c.c)], idx)
                  ELSE ParseError(<<idx>>, <<>>, "unknown mod parameter")
             [] OTHER ->
                  mod_params(cells, j + 1, [p EXCEPT !.positional = Append(@, c)], idx)

\* The positional cells of a mod row with repeat and update_ms the other way round.
mod_positional_RepeatLast(p, idx) ==
  LET ps == p.positional
      n == Len(ps)
  IN  IF n > 7 THEN ParseError(<<idx>>, <<>>, "too many positional args for mod")
      ELSE IF n >= 1 /\ ~_is_number(ps[1])
        THEN ParseError(<<idx>>, <<>>, "mod start must be a number")
      ELSE IF n >= 2 /\ ~_is_number(ps[2])
        THEN ParseError(<<idx>>, <<>>, "mod end must be a number")
      ELSE IF n >= 3 /\ ~_is_number(ps[3])
        THEN ParseError(<<idx>>, <<>>, "mod time must be a number (seconds)")
      ELSE IF n >= 4 /\ _normalize_direction(ps[4]) = <<>>
        THEN ParseError(<<>>, <<>>, "invalid direction")
      ELSE IF n >= 5 /\ _parse_bool(ps[5]) = <<>>
        THEN ParseError(<<>>, <<>>, "invalid boolean")
      ELSE IF n >= 6 /\ ~_is_number(ps[6])
        THEN ParseError(<<idx>>, <<>>, "mod update interval must be a number")
      ELSE IF n >= 7 /\ _parse_bool(ps[7]) = <<>>
        THEN ParseError(<<>>, <<>>, "invalid boolean")
      ELSE [ok |-> TRUE,
            p |-> [p EXCEPT
                     !.start_hz = IF n >= 1 THEN <<ps[1].v>> ELSE @,
                     !.end_hz = IF n >= 2 THEN <<ps[2].v>> ELSE @,
                     !.time_s = IF n >= 3 THEN <<Seconds(ps[3].v)>> ELSE @,
                     !.direction = IF n >= 4 THEN _normalize_direction(ps[4]) ELSE @,
                     !.adaptive_voltage = IF n >= 5 THEN _parse_bool(ps[5]) ELSE @,
                     !.update_ms = IF n >= 6 THEN <<ps[6].v>> ELSE @,
                     !.repeat = IF n >= 7 THEN _parse_bool(ps[7]) ELSE @]]

\* commands.py:648-674: the positional cells in the order start, end, time_s,
\* direction, adaptive_voltage, repeat, update_ms; each overrides its key=value.
mod_positional(p, idx) ==
  LET ps == p.positional
      n == Len(ps)
  IN  IF n > 7 THEN ParseError(<<idx>>, <<>>, "too many positional args for mod")
      ELSE IF n >= 1 /\ ~_is_number(ps[1])
        THEN ParseError(<<idx>>, <<>>, "mod start must be a number")
      ELSE IF n >= 2 /\ ~_is_number(ps[2])
        THEN ParseError(<<idx>>, <<>>, "mod end must be a number")
      ELSE IF n >= 3 /\ ~_is_number(ps[3])
        THEN ParseError(<<idx>>, <<>>, "mod time must be a number (seconds)")
      ELSE IF n >= 4 /\ _normalize_direction(ps[4]) = <<>>
        THEN ParseError(<<>>, <<>>, "invalid direction")
      ELSE IF n >= 5 /\ _parse_bool(ps[5]) = <<>>
        THEN ParseError(<<>>, <<>>, "invalid boolean")
      ELSE IF n >= 6 /\ _parse_bool(ps[6]) = <<>>
        THEN ParseError(<<>>, <<>>, "invalid boolean")
      ELSE IF n >= 7 /\ ~_is_number(ps[7])
        THEN ParseError(<<idx>>, <<>>, "mod update interval must be a number")
      ELSE [ok |-> TRUE,
            p |-> [p EXCEPT
                     !.start_hz = IF n >= 1 THEN <<ps[1].v>> ELSE @,
                     !.end_hz = IF n >= 2 THEN <<ps[2].v>> ELSE @,
                     !.time_s = IF n >= 3 THEN <<Seconds(ps[3].v)>> ELSE @,
                     !.direction = IF n >= 4 THEN _normalize_direction(ps[4]) ELSE @,
                     !.adaptive_voltage = IF n >= 5 THEN _parse_bool(ps[5]) ELSE @,
                     !.repeat = IF n >= 6 THEN _parse_bool(ps[6]) ELSE @,
                     !.update_ms = IF n >= 7 THEN <<ps[7].v>> ELSE @]]

\* commands.py:676-682: a field that was not given takes its default.
mod_default(field, default) == IF field = <<>> THEN default ELSE field[1]

\* commands.py:583-707
parse_mod(row, idx) ==
  LET scan == mod_params(row.cells, 1, ModFieldsInit, idx)
      given == mod_positional(scan.p, idx)
      start_hz == mod_default(given.p.start_hz, 1)
      end_hz == mod_default(given.p.end_hz, 1000000)
      time_s == mod_default(given.p.time_s, Seconds(1))
      update_ms == mod_default(given.p.update_ms, 50)
      opts == _parse_json_options(row.cells, scan.j)
  IN  IF ~scan.ok THEN scan
      ELSE IF ~given.ok THEN given
      ELSE IF start_hz < 0 \/ end_hz < 0
        THEN ParseError(<<idx>>, <<>>, "mod start/end must be >= 0")
      ELSE IF time_s <= 0 THEN ParseError(<<idx>>, <<>>, "mod time must be > 0 (seconds)")
      ELSE IF update_ms <= 0
        THEN ParseError(<<idx>>, <<>>, "mod update interval must be > 0 (milliseconds)")
      ELSE IF opts = <<>> THEN ParseError(<<idx>>, <<>>, "invalid JSON options")
      ELSE Parsed(<<ModStepAt(start_hz, end_hz, time_s, update_ms,
                              mod_default(given.p.direction, "rise-and-fall"),
                              mod_default(given.p.adaptive_voltage, FALSE),
                              mod_default(given.p.repeat, TRUE), opts[1], idx)>>)

\* commands.py:105-109
_WAIT_ALIASES == {"wait", "sleep", "delay"}
_STOP_ALIASES == {"stop", "off", "disable"}
_FREQ_ALIASES == {"freq", "frequency", "f"}
_CYCLE_ALIASES == {"cycle", "loop"}
_MOD_ALIASES == {"mod", "modulate", "sweep"}

\* commands.py:462-466: an empty row, an empty first cell or a comment is skipped.
is_skipped(row) == row.cmd \in {"", "#", "# note"}

\* commands.py:468-711: one row of the file, idx its 1-based line.
parse_row(row, idx) ==
  LET cmd == lower(row.cmd)
  IN  CASE is_skipped(row) -> Parsed(<<>>)
        [] cmd \in _WAIT_ALIASES -> parse_wait(row, idx)
        [] cmd \in _STOP_ALIASES -> Parsed(<<StopStepAt(idx)>>)
        [] cmd \in _FREQ_ALIASES -> parse_freq(row, idx)
        [] cmd \in _CYCLE_ALIASES -> parse_cycle(row, idx)
        [] cmd \in _MOD_ALIASES -> parse_mod(row, idx)
        [] OTHER -> ParseError(<<idx>>, <<>>, "unknown command")

----------------------------------------------------------------------------
(* parse_csv_commands as a state machine: the rows are read one by one (i   *)
(* rows read so far), the first row in error ends the call, and the raw     *)
(* steps of a file read to its end are expanded into the step sequence.     *)

\* The longest file whose expansion is followed.
MaxRows == 5

ExpandRowPool ==
  {Row("freq", <<ListTok(<<Num(1), Num(2)>>), OptsTok("A")>>),
   Row("freq", <<ListTok(<<Num(3)>>)>>),
   Row("freq", <<Num(0)>>),
   Row("Freq", <<Num(5), OptsTok("B")>>),
   Row("wait", <<Num(1)>>),
   Row("stop", <<>>),
   Row("# note", <<>>)}

ParseInit(rows) ==
  /\ steps = <<>>
  /\ resume = None /\ dry_run = TRUE /\ fixed_wait_seconds = NoneNum
  /\ tick_wait_updates = TRUE /\ app = NoApp
  /\ paused = FALSE /\ stopped = FALSE /\ skip_wait = FALSE
  /\ resume_checkpoint = None
  /\ pc = "parse" /\ i = 0 /\ resume_within = None
  /\ loc = [rows |-> rows, raw_steps |-> <<>>, error |-> None]
  /\ fg = "none" /\ ret = "none" /\ rc = -1 /\ raised = "none"
  /\ log = <<>> /\ mon = MonInit

InitExpand == \E rows \in {<<>>} \cup SeqsUpTo(ExpandRowPool, MaxRows) : ParseInit(rows)

\* commands.py:461-711: the next row is read; its raw step is appended, or the
\* exception it raises ends parse_csv_commands.
ParseRow ==
  /\ pc = "parse" /\ i < Len(loc.rows)
  /\ LET r == parse_row(loc.rows[i + 1], i + 1)
     IN  IF r.ok
           THEN /\ loc' = [loc EXCEPT !.raw_steps = @ \o r.raw]
                /\ i' = i + 1
                /\ pc' = pc
           ELSE /\ loc' = [loc EXCEPT !.error = r]
                /\ i' = i
                /\ pc' = "parse_error"
  /\ UNCHANGED <<steps, resume, dry_run, fixed_wait_seconds, tick_wait_updates, app,
                 flagVars, resume_checkpoint, resume_within, fg, ret, rc, raised, log, mon>>

\* commands.py:713 (and 436-437 for a file without text): the raw steps are
\* expanded and returned.
Expand ==
  /\ pc = "parse" /\ i = Len(loc.rows)
  /\ steps' = _expand_steps(loc.raw_steps)
  /\ pc' = "parsed"
  /\ UNCHANGED <<resume, dry_run, fixed_wait_seconds, tick_wait_updates, app, flagVars,
                 resume_checkpoint, i, resume_within, loc, fg, ret, rc, raised, log, mon>>

\* _expand_steps applied to its own output and, for comparison, to the flat steps
\* among the raw steps.
Reexpand ==
  /\ pc = "parsed"
  /\ log' = <<_expand_steps(steps),
              _expand_steps(SelectSeq(loc.raw_steps, LAMBDA s : s.kind # "_FreqListRaw"))>>
  /\ pc' = "reexpanded"
  /\ UNCHANGED <<inputVars, flagVars, resume_checkpoint, i, resume_within, loc, fg, ret,
                 rc, raised, mon>>

NextExpand == ParseRow \/ Expand \/ Reexpand
SpecExpand == InitExpand /\ [][NextExpand]_vars

----------------------------------------------------------------------------
(* C21: legacy expansion. *)

\* The raw step at index k is a template row of the list record before it: a wait
\* right after the record, a FreqStep of 0 Hz right after the record or after that
\* wait, or a wait right after that FreqStep.
C21_OnWait(R, k) == k > 1 /\ R[k].kind = "WaitStep" /\ R[k - 1].kind = "_FreqListRaw"
C21_Pause(R, k) ==
  /\ k > 1 /\ R[k].kind = "FreqStep" /\ R[k].hz = 0
  /\ (R[k - 1].kind = "_FreqListRaw" \/ C21_OnWait(R, k - 1))
C21_OffWait(R, k) == k > 1 /\ R[k].kind = "WaitStep" /\ C21_Pause(R, k - 1)
C21_Template(R, k) == C21_OnWait(R, k) \/ C21_Pause(R, k) \/ C21_OffWait(R, k)

\* The template rows that follow the record at index k, in their order.
C21_TemplateOf(R, k) ==
  LET j == CHOOSE j \in (k + 1)..(Len(R) + 1) :
             /\ \A t \in (k + 1)..(j - 1) : C21_Template(R, t)
             /\ (j = Len(R) + 1 \/ ~C21_Template(R, j))
  IN  SubSeq(R, k + 1, j - 1)

RECURSIVE C21_Groups(_, _, _)
C21_Groups(s, template, k) ==
  IF k > Len(s.freqs_hz) THEN <<>>
  ELSE <<[kind |-> "FreqStep", hz |-> s.freqs_hz[k], options |-> s.options,
          source_line |-> s.source_line]>> \o template \o C21_Groups(s, template, k + 1)

\* What the rows from index k on compile to.
RECURSIVE C21_Expected(_, _)
C21_Expected(R, k) ==
  IF k > Len(R) THEN <<>>
  ELSE (CASE R[k].kind = "_FreqListRaw" -> C21_Groups(R[k], C21_TemplateOf(R, k), 1)
          [] C21_Template(R, k) -> <<>>
          [] OTHER -> <<R[k]>>) \o C21_Expected(R, k + 1)

\* C21: a frequency-list record of n frequencies followed by the optional rows
\* [wait], [freq 0, [wait]] compiles to n consecutive groups in list order, each the
\* FreqStep of that frequency with the list row's options and source_line followed by
\* copies of the matched rows in their order; the matched rows appear nowhere else,
\* and every other row (the rows after a bare-number freq row too) is compiled on
\* its own, exactly once. Every raw step carries the line of its row.
C21_LegacyExpansion ==
  /\ pc \in {"parsed", "reexpanded"} => steps = C21_Expected(loc.raw_steps, 1)
  /\ \A k \in 1..Len(loc.raw_steps) :
       /\ loc.raw_steps[k].source_line \in 1..i
       /\ ~is_skipped(loc.rows[loc.raw_steps[k].source_line])
       /\ k > 1 => loc.raw_steps[k - 1].source_line < loc.raw_steps[k].source_line

\* A list of two frequencies with the full template (wait, freq 0, wait) and a row
\* after it has been expanded into two groups of four and the row.
C21_Witness ==
  /\ pc = "parsed"
  /\ Len(loc.raw_steps) = 5
  /\ loc.raw_steps[1].kind = "_FreqListRaw" /\ Len(loc.raw_steps[1].freqs_hz) = 2
  /\ C21_OnWait(loc.raw_steps, 2) /\ C21_Pause(loc.raw_steps, 3)
  /\ C21_OffWait(loc.raw_steps, 4)
  /\ Len(steps) = 9 /\ steps[5].hz = 2 /\ steps[5].options = "A" /\ steps[9] = loc.raw_steps[5]

----------------------------------------------------------------------------
(* C22: _expand_steps is idempotent. *)

\* C22: _expand_steps applied to its own output returns it unchanged, and a sequence
\* of final steps only (no frequency-list record) is returned element for element.
C22_Idempotent ==
  pc = "reexpanded" =>
    /\ log[1] = steps
    /\ log[2] = SelectSeq(loc.raw_steps, LAMBDA s : s.kind # "_FreqListRaw")

\* An expansion that did replay a template has been expanded again, and so has a
\* flat sequence that holds the rows of a template (wait, freq 0) without a list.
C22_Witness ==
  /\ pc = "reexpanded"
  /\ Len(steps) > Len(loc.raw_steps)
  /\ \E k \in 2..Len(log[2]) :
       /\ log[2][k].kind = "FreqStep" /\ log[2][k].hz = 0
       /\ log[2][k - 1].kind = "WaitStep"

----------------------------------------------------------------------------
(* Files of every kind of row, well formed and not.                         *)

\* The longest file parsed.
MaxParseRows == 2

\* The elements of seq whose index is in S, in their order.
Pick(seq, S) ==
  LET F[k \in 0..Len(seq)] ==
        IF k = 0 THEN <<>> ELSE IF k \in S THEN Append(F[k - 1], seq[k]) ELSE F[k - 1]
  IN  F[Len(seq)]

PlainRowPool ==
  {Row("WAIT", <<Num(2)>>), Row("sleep", <<Word("x")>>), Row("wait", <<>>),
   Row("off", <<>>), Row("", <<>>), Row("# note", <<>>), Row("bogus", <<Num(1)>>),
   Row("f", <<Num(5)>>), Row("freq", <<Word("x")>>),
   Row("freq", <<ListTok(<<Num(1), Num(2)>>), OptsTok("A")>>),
   Row("freq", <<ListTok(<<>>)>>), Row("freq", <<ListTok(<<Num(1), Word("x")>>)>>),
   Row("Freq", <<Num(5), OptsTok("malformed")>>)}

\* Range objects with and without start, end and step, of either direction, with a
\* step of either sign or zero, and with a key that is not allowed.
RangeObjPool ==
  {RangeObj(a, b, st, extra) :
     a \in {<<>>, <<1>>, <<3>>}, b \in {<<>>, <<1>>, <<3>>},
     st \in {<<>>, <<0>>, <<2>>, <<-2>>}, extra \in {{}, {"stop"}}}

CycleRowPool ==
  {Row("cycle", <<ListTok(<<Num(5), e>>), Num(1)>>) : e \in RangeObjPool}
  \cup {Row("loop", <<ListTok(<<e, Num(5)>>), KV("on", Num(1)), KV("pause_hz", Num(7))>>) :
          e \in {RangeObj(<<3>>, <<1>>, <<2>>, {}), RangeObj(<<1>>, <<1>>, <<0>>, {}),
                 Word("x"), Num(Inf)}}
  \cup {Row("cycle", <<ListTok(<<Num(5)>>)>> \o tail) :
          tail \in {<<>>, <<Num(1), Num(2)>>, <<Num(1), Num(2), Num(3)>>,
                    <<KV("adaptive", Word("maybe"))>>, <<KV("adaptive", Word("yes"))>>,
                    <<KV("on", Word("x"))>>, <<KV("speed", Num(1))>>,
                    <<Num(1), Blank, OptsTok("A")>>, <<Num(1), Word("x")>>}}
  \cup {Row("cycle", <<>>), Row("cycle", <<Num(5)>>), Row("cycle", <<ListTok(<<>>)>>)}

\* One key=value cell for each field of a mod row, in the spellings the parser takes.
ModKVs ==
  <<KV("start", Num(5)), KV("to", Num(7)), KV("time-ms", Num(500)),
    KV("update_ms", Num(10)), KV("dir", Word("fall")), KV("adaptive", Word("yes")),
    KV("Repeat", Word("no"))>>

\* Eight positional cells of a mod row: one more than the parser takes.
ModPositionals ==
  <<Num(100), Num(200), Num(2), Word("Rise"), Word("TRUE"), Num(0), Num(20), Num(9)>>

ModRowPool ==
  {Row("mod", Pick(ModKVs, S)) : S \in SUBSET (1..7)}
  \cup {Row("Sweep", SubSeq(ModPositionals, 1, n)) : n \in 0..8}
  \cup {Row("mod", <<KV("update", Num(10))>> \o SubSeq(ModPositionals, 1, n)) : n \in 0..7}
  \cup {Row("modulate", cells) :
          cells \in {<<Num(-1)>>, <<Num(1), Num(-1)>>, <<Num(1), Num(2), Num(0)>>,
                     <<KV("time-ms", Num(0))>>, <<KV("update", Num(0))>>,
                     <<KV("update", Num(-5))>>, <<KV("start", Num(-1))>>,
                     <<Num(1), Num(2), Num(1), Word("sideways")>>,
                     <<KV("direction", Word("sideways"))>>,
                     <<Num(1), Num(2), Num(1), Word("rise_and_fall"), Word("maybe")>>,
                     <<KV("repeat", Word("maybe"))>>, <<KV("speed", Num(1))>>,
                     <<Word("x")>>, <<Num(1), Num(2), Num(1), Word("up"), Num(1), Num(1)>>,
                     <<Num(1), Blank, Num(2), OptsTok("A")>>,
                     <<Num(1), OptsTok("malformed")>>}}

ParseRowPool == PlainRowPool \cup CycleRowPool \cup ModRowPool

InitParse == \E rows \in {<<>>} \cup SeqsUpTo(ParseRowPool, MaxParseRows) : ParseInit(rows)

NextParse == ParseRow \/ Expand
SpecParse == InitParse /\ [][NextParse]_vars

----------------------------------------------------------------------------
(* C23: compilation is all-or-nothing. *)

\* The row is read by the parser (not empty, not a comment).
C23_Read(row) == row.cmd \notin {"", "#", "# note"}

\* C23: if a row that is not skipped has an unknown first cell or fails the
\* validation of its fields, parse_csv_commands raises an error that names the
\* 1-based line of the first such row, and returns no step sequence, however many
\* rows before it were valid; a file is compiled only when every row is valid.
C23_AllOrNothing ==
  /\ pc = "parse_error" =>
       /\ steps = <<>>
       /\ C23_Read(loc.rows[i + 1])
       /\ \A l \in 1..i : parse_row(loc.rows[l], l).ok
       /\ loc.error.line = <<i + 1>>
  /\ pc = "parsed" => \A l \in 1..Len(loc.rows) : parse_row(loc.rows[l], l).ok

\* What the code does keep: the first row in error ends the call without a step
\* sequence, and its message names that line or no line at all.
C23_FirstErrorEnds ==
  /\ pc = "parse_error" =>
       /\ steps = <<>>
       /\ C23_Read(loc.rows[i + 1])
       /\ \A l \in 1..i : parse_row(loc.rows[l], l).ok
       /\ loc.error.line \in {<<i + 1>>, <<>>}
       /\ loc.error.line = <<>> => loc.error.what \in {"invalid direction", "invalid boolean"}
  /\ pc = "parsed" => \A l \in 1..Len(loc.rows) : parse_row(loc.rows[l], l).ok

----------------------------------------------------------------------------
(* C24: the fields of a mod row. *)

\* The cells of a row before its options.
C24_Fields(row) ==
  LET first == CHOOSE j \in 1..(Len(row.cells) + 1) :
                 /\ \A t \in 1..(j - 1) : row.cells[t].tok # "opts"
                 /\ (j = Len(row.cells) + 1 \/ row.cells[j].tok = "opts")
  IN  SubSeq(row.cells, 1, first - 1)

\* The fields given by position, and whether a field is given by one of its keys.
C24_Positional(row) == SelectSeq(C24_Fields(row), LAMBDA c : c.tok \notin {"kv", "blank"})
C24_ByKey(row, keys) ==
  \E t \in 1..Len(C24_Fields(row)) :
    /\ C24_Fields(row)[t].tok = "kv"
    /\ C24_Fields(row)[t].k \in keys

\* The row at line l is a mod row that was compiled, and the ModStep it gave.
C24_Compiled(l) ==
  /\ l \in 1..i
  /\ \E k \in 1..Len(loc.raw_steps) :
       loc.raw_steps[k].source_line = l /\ loc.raw_steps[k].kind = "ModStep"
C24_StepOf(l) ==
  loc.raw_steps[CHOOSE k \in 1..Len(loc.raw_steps) : loc.raw_steps[k].source_line = l]

\* C24: in a compiled mod row every field given neither by position nor by key has
\* its default (start 1, end 1000000, time_s 1, update_ms 50, direction
\* rise-and-fall, adaptive_voltage false, repeat true) whatever other fields are
\* given, a field given by position has the value given; and no mod row is compiled
\* with start < 0, end < 0, time_s <= 0, update_ms <= 0, a direction outside the
\* vocabulary or more than 7 positional fields.
C24_ModFields ==
  \A l \in 1..Len(loc.rows) :
    C24_Compiled(l) =>
      LET row == loc.rows[l]
          s == C24_StepOf(l)
          ps == C24_Positional(row)
          n == Len(ps)
      IN  /\ n <= 7
          /\ IF n >= 1 THEN s.start_hz = ps[1].v
             ELSE C24_ByKey(row, {"start"}) \/ s.start_hz = 1
          /\ IF n >= 2 THEN s.end_hz = ps[2].v
             ELSE C24_ByKey(row, {"to"}) \/ s.end_hz = 1000000
          /\ IF n >= 3 THEN s.time_s = 1000 * ps[3].v
             ELSE C24_ByKey(row, {"time-ms"}) \/ s.time_s = 1000
          /\ n < 4 => (C24_ByKey(row, {"dir", "direction"}) \/ s.direction = "rise-and-fall")
          /\ n < 5 => (C24_ByKey(row, {"adaptive"}) \/ s.adaptive_voltage = FALSE)
          /\ n < 6 => (C24_ByKey(row, {"repeat", "Repeat"}) \/ s.repeat = TRUE)
          /\ IF n >= 7 THEN s.update_ms = ps[7].v
             ELSE C24_ByKey(row, {"update", "update_ms"}) \/ s.update_ms = 50
          /\ s.start_hz >= 0 /\ s.end_hz >= 0 /\ s.time_s > 0 /\ s.update_ms > 0
          /\ s.direction \in {"rise", "fall", "rise-and-fall"}

\* The row 'mod,100,200,2,rise' has been compiled with repeat true and update_ms 50,
\* and the mod row after it, with a negative start, has been rejected.
C24_Witness ==
  /\ pc = "parse_error" /\ i = 1
  /\ loc.rows[1].cells = <<Num(100), Num(200), Num(2), Word("Rise")>>
  /\ C24_Compiled(1)
  /\ C24_StepOf(1).repeat /\ C24_StepOf(1).update_ms = 50 /\ C24_StepOf(1).direction = "rise"
  /\ loc.rows[2] = Row("modulate", <<Num(-1)>>)

----------------------------------------------------------------------------
(* C25: the ranges of a cycle list. *)

\* The row at line l is a cycle row with a list, and it was read: compiled (l <= i)
\* or rejected (the row the parse ended on).
C25_Rejected(l) == pc = "parse_error" /\ l = i + 1
C25_CycleRow(l) ==
  /\ l <= i \/ C25_Rejected(l)
  /\ loc.rows[l].cmd \in {"cycle", "loop"}
  /\ Len(loc.rows[l].cells) >= 1 /\ loc.rows[l].cells[1].tok = "list"
C25_Elems(l) == loc.rows[l].cells[1].elems
C25_ItemsOf(l) ==
  loc.raw_steps[CHOOSE k \in 1..Len(loc.raw_steps) : loc.raw_steps[k].source_line = l].items

\* A range object that must be rejected: a step of 0, no start or no end, or a key
\* other than start, end, step.
C25_Bad(x) ==
  x.tok = "dict" /\ (x.extra # {} \/ x.start = <<>> \/ x.end = <<>> \/ x.step = <<0>>)
C25_ZeroSpan(x) == x.tok = "dict" /\ x.start # <<>> /\ x.end # <<>> /\ x.start = x.end

\* The element at pos is the first of its list that the parser refuses.
C25_FirstRefused(l, pos) ==
  \A q \in 1..(pos - 1) : cycle_item(C25_Elems(l)[q], l, q).ok

\* The statement for the zero-span objects in Collapsing.
C25_Statement(Collapsing(_)) ==
  \A l \in 1..Len(loc.rows) :
    C25_CycleRow(l) =>
      /\ l <= i =>
           \A k \in 1..Len(C25_ItemsOf(l)) :
             LET it == C25_ItemsOf(l)[k]
             IN  it.range =>
                   /\ it.start_hz # it.end_hz /\ it.step_hz # 0
                   /\ (it.step_hz > 0) = (it.end_hz > it.start_hz)
      /\ \A pos \in 1..Len(C25_Elems(l)) :
           LET x == C25_Elems(l)[pos]
           IN  /\ Collapsing(x) =>
                    /\ ~(C25_Rejected(l) /\ loc.error.pos = <<pos>>)
                    /\ l <= i => C25_ItemsOf(l)[pos] = [range |-> FALSE, hz |-> x.start[1]]
               /\ C25_Bad(x) =>
                    /\ C25_Rejected(l)
                    /\ C25_FirstRefused(l, pos) =>
                         loc.error.line = <<l>> /\ loc.error.pos = <<pos>>

----------------------------------------------------------------------------
(* The resume store: command files on disk, the editor, the settings file and the
   persisted resume record (gui/resume_store.py; app.py:190-254, 549-718, 892-950). *)

\* Bounds: the command files the user works with, the texts they may hold, and the
\* number of times the program is launched.
Paths == {"a.csv", "b.csv"}
Contents == {1, 2}
Missing == 0
MaxLaunches == 2

\* resume_store.py:32-37 (file_sha256): the digest of a file's text; texts are told
\* apart by their digests.
file_sha256(text) == <<"sha256", text>>

\* runner.py (checkpoint): the dict the engine stores in state.resume_checkpoint. `on`
\* is not a key of the dict: it records the text whose steps the engine was running.
CheckpointOn(text) == [kind |-> "dict", v |-> 1, step_index |-> 0, on |-> text]

\* resume_store.py:112-118: the record kept under settings['resume'].
ResumeRecord(v, path, sha, ck) ==
  [kind |-> "dict", v |-> v, file_path |-> path, file_sha256 |-> sha, checkpoint |-> ck]

\* resume_store.py:39-43 (invalidate).
invalidate == [available |-> FALSE, checkpoint |-> None]

\* resume_store.py:58-97 (load_for_file). current_file is <<>> or <<path>>.
load_for_file(current_file, dirty, disk, settings) ==
  IF dirty \/ current_file = <<>> THEN invalidate
  ELSE IF disk[current_file[1]] = Missing THEN invalidate
  ELSE LET r == settings.resume IN
    IF r.kind # "dict" THEN invalidate
    ELSE IF r.v # 1 THEN invalidate
    ELSE IF r.file_path # current_file[1] THEN invalidate
    ELSE IF file_sha256(disk[current_file[1]]) # r.file_sha256 THEN invalidate
    ELSE [available |-> TRUE, checkpoint |-> r.checkpoint]

\* resume_store.py:107 and app.py:924: the digest of the executed text is compared
\* with the file's only when one was taken at the start of the run.
executed_matches(executed_sha256, file_sha) ==
  executed_sha256 = <<>> \/ executed_sha256 = <<file_sha>>

\* resume_store.py:99-123 (persist): TRUE when the record is written.
persist_writes(current_file, dirty, disk, executed_sha256) ==
  /\ ~dirty /\ current_file # <<>>
  /\ disk[current_file[1]] # Missing
  /\ executed_matches(executed_sha256, file_sha256(disk[current_file[1]]))

FilesApp(disk, settings) ==
  [kind |-> "Files", closed |-> FALSE, launches |-> 1,
   disk |-> disk, settings |-> settings,
   current_file |-> <<>>, editor |-> Missing, _dirty |-> FALSE,
   resume_store |-> invalidate,
   _running |-> FALSE, _run_file_sha256 |-> <<>>, _resume_autostart |-> "due",
   executing |-> Missing, resumed_on |-> Missing, op |-> "new"]

\* app.py:226-244 (_open_file) with _set_dirty(False) of app.py:190-205.
opened(a, path) ==
  [a EXCEPT !.editor = a.disk[path], !.current_file = <<path>>, !._dirty = FALSE,
            !.resume_store = load_for_file(<<path>>, FALSE, a.disk, a.settings),
            !.op = "load"]

\* app.py:855-876 (_load_settings): the file named by the settings is opened when it
\* exists, and the auto-resume is scheduled.
launched(a) ==
  IF a.settings.file_path # <<>> /\ a.disk[a.settings.file_path[1]] # Missing
    THEN opened(a, a.settings.file_path[1])
    ELSE a

\* The settings file and the disk as an earlier session can have left them: no
\* record, or a record of version 1 (or of a later format, 2) written for a file
\* and for the text that was running.
StoredRecords ==
  {None} \cup {ResumeRecord(v, p, file_sha256(c), CheckpointOn(c)) :
                 v \in {1, 2}, p \in Paths, c \in Contents}

FilesQuiet ==
  UNCHANGED <<steps, resume, dry_run, fixed_wait_seconds, tick_wait_updates, flagVars,
              pc, i, resume_within, loc, fg, ret, rc, raised, log, mon>>

InitFiles ==
  /\ steps = <<>>
  /\ resume = None /\ dry_run = FALSE /\ fixed_wait_seconds = NoneNum
  /\ tick_wait_updates = TRUE
  /\ paused = FALSE /\ stopped = FALSE /\ skip_wait = FALSE
  /\ resume_checkpoint = None
  /\ pc = "idle" /\ i = 0 /\ resume_within = None /\ loc = LocInit
  /\ fg = "none" /\ ret = "none" /\ rc = -1 /\ raised = "none"
  /\ log = <<>> /\ mon = MonInit
  /\ \E disk \in [Paths -> {Missing} \cup Contents], r \in StoredRecords,
        fp \in {<<>>} \cup {<<p>> : p \in Paths} :
       app = launched(FilesApp(disk, [file_path |-> fp, resume |-> r]))

\* app.py:207-213 (_on_modified): the user changes the text in the editor.
EditText ==
  /\ ~app.closed
  /\ \E c \in Contents \ {app.editor} :
       app' = [app EXCEPT !.editor = c, !._dirty = TRUE, !.resume_store = invalidate,
                          !.op = "edit"]
  /\ UNCHANGED resume_checkpoint /\ FilesQuiet

\* app.py:246-265 (_save, _save_as): the editor is written to the current file, or to
\* a file the user names when there is none.
SaveFile ==
  /\ ~app.closed /\ app.editor # Missing
  /\ \E p \in (IF app.current_file = <<>> THEN Paths ELSE {app.current_file[1]}) :
       LET disk == [app.disk EXCEPT ![p] = app.editor]
       IN  app' = [app EXCEPT !.disk = disk, !.current_file = <<p>>, !._dirty = FALSE,
                              !.resume_store = load_for_file(<<p>>, FALSE, disk, app.settings),
                              !.op = "load"]
  /\ UNCHANGED resume_checkpoint /\ FilesQuiet

\* app.py:215-244 (_browse_open): another file is opened; unsaved edits are dropped
\* when the user answers so.
OpenFile ==
  /\ ~app.closed
  /\ \E p \in Paths :
       /\ app.disk[p] # Missing
       /\ app' = opened(app, p)
  /\ UNCHANGED resume_checkpoint /\ FilesQuiet

\* Another program writes or removes a command file.
OtherProgramWrites ==
  /\ \E p \in Paths, c \in {Missing} \cup Contents :
       /\ c # app.disk[p]
       /\ app' = [app EXCEPT !.disk[p] = c, !.op = "disk"]
  /\ UNCHANGED resume_checkpoint /\ FilesQuiet

\* app.py:655-672 with 423-434 and 562-570 (_start, _start_worker): the file, or the
\* editor's text when it is unsaved, is compiled and run; its digest is kept, or None
\* when reading it for the digest fails.
StartFile ==
  /\ ~app.closed /\ ~app._running
  /\ LET text == IF app.current_file = <<>> \/ app._dirty THEN app.editor
                 ELSE app.disk[app.current_file[1]]
     IN  /\ text # Missing
         /\ \E sha \in {<<>>, <<file_sha256(text)>>} :
              app' = [app EXCEPT !._running = TRUE, !._run_file_sha256 = sha,
                                 !.executing = text, !.resumed_on = Missing,
                                 !.op = "start"]
  /\ resume_checkpoint' = None
  /\ FilesQuiet

\* app.py:675-718 (_maybe_autostart_resume_paused), called once after the launch.
AutoResume ==
  /\ ~app.closed /\ app._resume_autostart = "due"
  /\ IF /\ ~app._running /\ ~app._dirty /\ app.resume_store.available
        /\ app.current_file # <<>> /\ app.disk[app.current_file[1]] # Missing
        /\ app.resume_store.checkpoint.kind = "dict"
       THEN LET text == app.disk[app.current_file[1]]
            IN  /\ \E sha \in {<<>>, <<file_sha256(text)>>} :
                     app' = [app EXCEPT !._running = TRUE, !._run_file_sha256 = sha,
                                        !._resume_autostart = "done",
                                        !.executing = text,
                                        !.resumed_on = app.resume_store.checkpoint.on,
                                        !.op = "resume"]
                /\ resume_checkpoint' = None
       ELSE /\ app' = [app EXCEPT !._resume_autostart = "skipped", !.op = "none"]
            /\ UNCHANGED resume_checkpoint
  /\ FilesQuiet

\* runner.py (checkpoint): the engine records where the run is.
EngineCheckpoint ==
  /\ ~app.closed /\ app._running
  /\ resume_checkpoint' = CheckpointOn(app.executing)
  /\ resume_checkpoint' # resume_checkpoint
  /\ app' = [app EXCEPT !.op = "checkpoint"]
  /\ FilesQuiet

\* app.py:1085-1152 (_drain_queue): the run ended; DONE clears the persisted record.
RunEnds ==
  /\ ~app.closed /\ app._running
  /\ \E kind \in {"DONE", "ERROR"} :
       app' = [app EXCEPT !._running = FALSE, !.op = "ended",
                 !.settings.resume = IF kind = "DONE" THEN None ELSE @,
                 !.resume_store = IF kind = "DONE" THEN invalidate ELSE @]
  /\ UNCHANGED resume_checkpoint /\ FilesQuiet

\* app.py:892-950 (_on_close): unsaved edits are saved or dropped as the user answers,
\* the checkpoint of a run in progress is persisted, the settings are written.
CloseWindow ==
  /\ ~app.closed
  /\ \E answer \in (IF app._dirty THEN {"save", "no"} ELSE {"clean"}) :
       \E path \in (IF app.current_file = <<>> THEN Paths ELSE {app.current_file[1]}) :
       LET saved == answer = "save" /\ app.editor # Missing
           disk == IF saved THEN [app.disk EXCEPT ![path] = app.editor] ELSE app.disk
           current_file == IF saved THEN <<path>> ELSE app.current_file
           dirty == IF saved THEN FALSE ELSE app._dirty
           settings == IF answer = "no" THEN [app.settings EXCEPT !.resume = None]
                       ELSE app.settings
           writes == /\ answer # "no" /\ app._running
                     /\ resume_checkpoint.kind = "dict"
                     /\ persist_writes(current_file, dirty, disk, app._run_file_sha256)
       IN  /\ answer = "save" => saved
           /\ app' = [app EXCEPT
                !.closed = TRUE, !.disk = disk, !.current_file = current_file,
                !._dirty = dirty, !._running = FALSE,
                !.settings = [file_path |-> current_file,
                              resume |-> IF writes
                                THEN ResumeRecord(1, current_file[1],
                                       file_sha256(disk[current_file[1]]), resume_checkpoint)
                                ELSE settings.resume],
                !.op = IF writes THEN "persist" ELSE "close"]
  /\ UNCHANGED resume_checkpoint /\ FilesQuiet

\* The program is launched again: a new App over the same disk and settings file.
Relaunch ==
  /\ app.closed /\ app.launches < MaxLaunches
  /\ app' = [launched(FilesApp(app.disk, app.settings)) EXCEPT !.launches = app.launches + 1]
  /\ resume_checkpoint' = None
  /\ FilesQuiet

NextFiles ==
  \/ EditText \/ SaveFile \/ OpenFile \/ OtherProgramWrites \/ StartFile \/ AutoResume
  \/ EngineCheckpoint \/ RunEnds \/ CloseWindow \/ Relaunch
SpecFiles == InitFiles /\ [][NextFiles]_vars

----------------------------------------------------------------------------
(* C26: the resume store offers and persists a record only for the text that ran. *)

\* The file the editor shows is saved, unedited and on disk.
C26_SavedClean(a) ==
  /\ ~a._dirty /\ a.current_file # <<>>
  /\ a.disk[a.current_file[1]] # Missing

\* C26: whenever load_for_file leaves the resume available, the editor is not dirty,
\* the file exists, the record has version 1 and the file's path, and the file's
\* digest is the recorded one; whenever the close handler persists a record, the
\* file is saved, clean and on disk and its digest is that of the text that was
\* executed; and a run started by the auto-resume executes the text on which its
\* checkpoint was taken.
C26_OnlyForTheTextThatRan ==
  [][ /\ (app'.op = "load" /\ app'.resume_store.available) =>
           /\ C26_SavedClean(app')
           /\ app'.settings.resume.kind = "dict"
           /\ app'.settings.resume.v = 1
           /\ app'.settings.resume.file_path = app'.current_file[1]
           /\ app'.settings.resume.file_sha256
                = file_sha256(app'.disk[app'.current_file[1]])
      /\ app'.op = "persist" =>
           /\ C26_SavedClean(app')
           /\ app'.settings.resume.file_sha256 = file_sha256(app.executing)
           /\ app'.settings.resume.file_sha256
                = file_sha256(app'.disk[app'.current_file[1]])
      /\ app'.op = "resume" => app'.executing = app'.resumed_on
    ]_vars

----------------------------------------------------------------------------
(* The device connection: the worker of app.py:624-649, the connect threads of
   app.py:1433-1461, the poll loop of app.py:1483-1545 and the UI thread's queue. *)

\* Bounds: connect threads started and runs started in one behaviour.
MaxConnects == 3
MaxConnRuns == 2

\* The connection object fg of connect thread k is named k; self._fg is None or one
\* of them.
NoFg == 0

ConnApp(started) ==
  [kind |-> "Conn",
   _running |-> FALSE, _connected |-> FALSE, _fg |-> NoFg,
   _reconnect_after_run |-> FALSE, _io_lock |-> "free",
   worker |-> "none", engine_fg |-> FALSE, runs |-> 0,
   threads |-> [k \in 1..MaxConnects |-> IF k <= started THEN "connecting" ELSE "unborn"],
   open |-> {}, poll |-> [pc |-> "top", fg |-> NoFg], _poll_last_text |-> "",
   msgq |-> <<>>]

\* app.py:864-869: a connect thread is started at launch when a port is configured.
InitConn ==
  /\ steps = <<>>
  /\ resume = None /\ dry_run = FALSE /\ fixed_wait_seconds = NoneNum
  /\ tick_wait_updates = FALSE
  /\ paused = FALSE /\ stopped = FALSE /\ skip_wait = FALSE
  /\ resume_checkpoint = None
  /\ pc = "idle" /\ i = 0 /\ resume_within = None /\ loc = LocInit
  /\ fg = "none" /\ ret = "none" /\ rc = -1 /\ raised = "none"
  /\ log = <<>> /\ mon = MonInit
  /\ \E started \in {0, 1} : app = ConnApp(started)

ConnQuiet ==
  UNCHANGED <<steps, resume, dry_run, fixed_wait_seconds, tick_wait_updates, flagVars,
              resume_checkpoint, pc, i, resume_within, loc, fg, ret, rc, raised, log, mon>>

\* app.py:1433-1461 (_connect_selected_port_async, the part run by the caller):
\* nothing when already connected, else a new thread is started.
connect_async(a) ==
  LET k == Cardinality({n \in 1..MaxConnects : a.threads[n] # "unborn"}) + 1
  IN  IF a._connected \/ k > MaxConnects THEN a
      ELSE [a EXCEPT !.threads[k] = "connecting"]

\* The port can be opened: always when no one holds it; when it is held, as the
\* operating system decides.
OpenOutcomes(a) ==
  IF a.engine_fg \/ a.open # {} THEN {"opened", "busy"} ELSE {"opened"}

\* app.py:1423-1431, 996-1002 (_toggle_connection, AUTODETECT): the user connects
\* while no script runs.
UserConnects ==
  /\ ~app._running /\ ~app._connected
  /\ app' = connect_async(app)
  /\ app' # app
  /\ ConnQuiet

\* app.py:1445-1446: the connect thread opens the port.
ThreadConnects ==
  /\ \E k \in 1..MaxConnects, outcome \in OpenOutcomes(app) :
       /\ app.threads[k] = "connecting"
       /\ app' = IF outcome = "opened"
                   THEN [app EXCEPT !.threads[k] = "opened", !.open = @ \cup {k}]
                   ELSE [app EXCEPT !.threads[k] = "finished"]
  /\ ConnQuiet

\* app.py:1447-1457: the connect thread closes the previous connection, stores its
\* own and posts CONNECTED.
ThreadStores ==
  /\ \E k \in 1..MaxConnects :
       /\ app.threads[k] = "opened"
       /\ app' = [app EXCEPT !.threads[k] = "finished",
                             !.open = @ \ {app._fg},
                             !._fg = k, !._connected = TRUE,
                             !.msgq = Append(@, "CONNECTED")]
  /\ ConnQuiet

\* app.py:655-672, 597, 651-652 (_start, _start_worker): the Start button.
StartRun ==
  /\ ~app._running /\ app.worker = "none" /\ app.runs < MaxConnRuns
  /\ app' = [app EXCEPT !._running = TRUE, !.worker = "check", !.runs = @ + 1]
  /\ ConnQuiet

\* app.py:627-632: the worker closes the GUI's connection when there is one.
WorkerDisconnects ==
  /\ app.worker = "check"
  /\ app' = IF app._connected
              THEN [app EXCEPT !.worker = "connect", !._reconnect_after_run = TRUE,
                               !.open = @ \ {app._fg}, !._fg = NoFg,
                               !._connected = FALSE,
                               !.msgq = Append(@, "DISCONNECTED")]
              ELSE [app EXCEPT !.worker = "connect", !._reconnect_after_run = TRUE]
  /\ ConnQuiet

\* app.py:633 with runner.py:304-312: run_sequence opens the engine's connection, or
\* raises and the worker posts ERROR.
EngineConnects ==
  /\ app.worker = "connect"
  /\ \E outcome \in OpenOutcomes(app) :
       app' = IF outcome = "opened"
                THEN [app EXCEPT !.worker = "run", !.engine_fg = TRUE]
                ELSE [app EXCEPT !.worker = "none", !.msgq = Append(@, "ERROR")]
  /\ ConnQuiet

\* runner.py:909-912 and app.py:647: run_sequence closes its connection and returns;
\* the worker posts DONE.
EngineReturns ==
  /\ app.worker = "run"
  /\ app' = [app EXCEPT !.worker = "none", !.engine_fg = FALSE,
                        !.msgq = Append(@, "DONE")]
  /\ ConnQuiet

\* app.py:1009-1030, 1085-1152 (_drain_queue): the UI thread handles one message.
DrainConn ==
  /\ app.msgq # <<>>
  /\ LET m == Head(app.msgq)
         a == [app EXCEPT !.msgq = Tail(@)]
     IN  app' =
           CASE m = "CONNECTED" -> [a EXCEPT !._connected = TRUE]
             [] m = "DISCONNECTED" ->
                  [a EXCEPT !._connected = FALSE, !._poll_last_text = "no connection"]
             [] OTHER ->
                  IF a._reconnect_after_run
                    THEN connect_async([a EXCEPT !._running = FALSE,
                                                 !._reconnect_after_run = FALSE])
                    ELSE [a EXCEPT !._running = FALSE]
  /\ ConnQuiet

\* app.py:1490-1499: the poll loop passes its test of _running and waits for the tick.
PollWaits ==
  /\ app.poll.pc = "top" /\ ~app._running
  /\ app' = [app EXCEPT !.poll.pc = "wait"]
  /\ ConnQuiet

\* app.py:1505-1524: after the wait the loop takes the connection and tries the lock;
\* without a connection it shows that, and with the lock taken it skips the tick.
PollTakes ==
  /\ app.poll.pc = "wait"
  /\ app' = IF ~app._connected \/ app._fg = NoFg
              THEN [app EXCEPT !.poll.pc = "top", !._poll_last_text = "no connection"]
            ELSE IF app._io_lock # "free"
              THEN [app EXCEPT !.poll.pc = "top"]
              ELSE [app EXCEPT !.poll = [pc |-> "read", fg |-> app._fg],
                               !._io_lock = "poll"]
  /\ ConnQuiet

\* app.py:1526-1545: read_device_state on the connection taken, the lock is released
\* and the text read is shown.
PollReads ==
  /\ app.poll.pc = "read"
  /\ app' = [app EXCEPT !.poll = [pc |-> "top", fg |-> NoFg], !._io_lock = "free",
                        !._poll_last_text = "state"]
  /\ ConnQuiet

NextConn ==
  \/ UserConnects \/ ThreadConnects \/ ThreadStores \/ StartRun \/ WorkerDisconnects
  \/ EngineConnects \/ EngineReturns \/ DrainConn \/ PollWaits \/ PollTakes \/ PollReads
SpecConn == InitConn /\ [][NextConn]_vars

----------------------------------------------------------------------------
(* C27: the engine alone holds a device connection during a run. *)

\* The worker is inside run_sequence.
C27_EngineExecuting == app.worker \in {"connect", "run"}

\* C27: while the worker executes run_sequence, no connection opened by the GUI is
\* open, the poll loop is not reading the device, and the poll loop is never waiting
\* for the I/O lock.
C27_EngineOnlyHolder ==
  /\ C27_EngineExecuting =>
       /\ app.open = {}
       /\ app.poll.pc # "read"
  /\ app.poll.pc \in {"top", "wait", "read"}

----------------------------------------------------------------------------
(* Steps whose options enable or disable the channel outputs. *)

\* The step with the options mapping given (commands.py: the options field).
WithOptions(step, options) ==
  [x \in DOMAIN step \cup {"options"} |-> IF x = "options" THEN options ELSE step[x]]

\* {"channels": {...}} as a row's JSON options may give it: both outputs off by the
\* long keys, output 1 off by the short key (output 2 not named), both on.
ChannelOptions ==
  {[channels |-> [channel1 |-> FALSE, channel2 |-> FALSE]],
   [channels |-> [ch1 |-> FALSE]],
   [channels |-> [ch1 |-> TRUE, ch2 |-> TRUE]]}

ChannelStepPool ==
  {FreqStep(10), StopStep, WaitStep(2),
   CycleStep(<<Literal(5), CycleRangeSpec(1, 2, 1)>>, 2, Some(1)),
   ModStep("rise", TRUE)}
  \cup {WithOptions(FreqStep(10), o) : o \in ChannelOptions}
  \cup {WithOptions(CycleStep(<<Literal(5)>>, 2, NoneNum), [channels |-> [channel1 |-> FALSE, channel2 |-> FALSE]]),
        WithOptions(ModStep("rise-and-fall", FALSE), [channels |-> [channel1 |-> FALSE, channel2 |-> FALSE]])}

InitChannels ==
  /\ steps \in SeqsUpTo(ChannelStepPool, MaxSteps)
  /\ resume = None
  /\ dry_run \in BOOLEAN
  /\ fixed_wait_seconds = NoneNum
  /\ tick_wait_updates = TRUE
  /\ app = NoApp
  /\ EngineInit

SpecChannels == InitChannels /\ [][Next]_vars

----------------------------------------------------------------------------
(* C28: the outputs are not switched off because of a stop request. *)

\* The step that issued the last set_channels call.
C28_Issuer == steps[mon.channelsStep + 1]

\* The options of the issuing step ask for the output to be off: by the long key,
\* or by the short key when the long one is absent.
C28_AskedOff(long, short) ==
  /\ "options" \in DOMAIN C28_Issuer
  /\ "channels" \in DOMAIN C28_Issuer.options
  /\ LET c == C28_Issuer.options.channels
     IN  IF long \in DOMAIN c THEN c[long] = FALSE
         ELSE short \in DOMAIN c /\ c[short] = FALSE

\* A StopStep that is executed is followed by the next step's boundary, unless its
\* report or its set_channels call raises.
C28_StopStepGoesOn ==
  [][AtStep("StopStep") /\ pc' # pc => (pc' = "boundary" /\ i' = i + 1) \/ ret' = "raise"]_vars

\* C28 as stated: no set_channels call is issued once stopped has been observed;
\* set_channels(False, False) is issued only by a StopStep; and the run goes on
\* with the next step after a StopStep.
C28_OnlyStopStepDisables ==
  /\ [](~mon.channelsAfterStop)
  /\ [](mon.set_channels = <<[channel1 |-> FALSE, channel2 |-> FALSE]>>
          => C28_Issuer.kind = "StopStep")
  /\ C28_StopStepGoesOn

\* C28: no set_channels call is issued once stopped has been observed; an output is
\* switched off only by a StopStep, which switches both off, or at the head of a
\* FreqStep, CycleStep or ModStep whose options ask for that output to be off; and
\* the run goes on with the next step after a StopStep.
C28_NoDisableOnStop ==
  /\ [](~mon.channelsAfterStop)
  /\ [](mon.set_channels # <<>> =>
          IF C28_Issuer.kind = "StopStep"
            THEN mon.set_channels = <<[channel1 |-> FALSE, channel2 |-> FALSE]>>
            ELSE /\ C28_Issuer.kind \in {"FreqStep", "CycleStep", "ModStep"}
                 /\ ~mon.set_channels[1].channel1 => C28_AskedOff("channel1", "ch1")
                 /\ ~mon.set_channels[1].channel2 => C28_AskedOff("channel2", "ch2"))
  /\ C28_StopStepGoesOn

\* A StopStep switched both outputs off and the run went on to the next step, a
\* FreqStep whose options switch output 1 off; the stop request was observed at its
\* boundary and the run returned 4 without that set_channels call.
C28_Witness ==
  /\ pc = "returned" /\ rc = 4 /\ mon.stopObserved
  /\ Len(steps) = 2 /\ steps[1] = StopStep
  /\ steps[2] = WithOptions(FreqStep(10), [channels |-> [ch1 |-> FALSE]])
  /\ mon.channelsStep = 0
  /\ mon.set_channels = <<[channel1 |-> FALSE, channel2 |-> FALSE]>>

----------------------------------------------------------------------------
(* C29: a setter that raises ends the run with one ERROR message. *)

\* The worker puts its terminal message in the queue.
C29_Posts == pc = "returned" /\ pc' = "posted"

\* C29: once a setter call has raised, no setter is called again, run_sequence ends
\* by raising (no return code, neither "Done." nor "Stopped." reported), and the
\* worker posts one message for the run, ERROR and not DONE; for a run that returned
\* it posts one message, DONE. Only the worker's post adds to the queue, it adds
\* one message, and a run that has posted does not post again.
C29_SetterErrorIsOneError ==
  /\ [](~mon.setAfterRaise)
  /\ [](raised = "setter" =>
          /\ pc \in {"finally", "returned", "posted", "killed"}
          /\ ret = "raise" /\ rc = -1
          /\ mon.doneN = 0 /\ mon.lastStatus \notin {"Done.", "Stopped."})
  /\ [][ /\ C29_Posts =>
              /\ Len(app'.msgq) = Len(app.msgq) + 1
              /\ SubSeq(app'.msgq, 1, Len(app.msgq)) = app.msgq
              /\ app'.msgq[Len(app'.msgq)].kind = IF ret = "raise" THEN "ERROR" ELSE "DONE"
              /\ (raised = "setter" => ret = "raise")
         /\ Len(app'.msgq) > Len(app.msgq) => C29_Posts
         /\ pc = "returned" => pc' \in {"returned", "posted", "killed"}
         /\ pc = "posted" => pc' \in {"posted", "start", "killed"}
     ]_vars

\* The second setter call of a run raised; the worker has posted ERROR, the only
\* message in the queue.
C29_Witness ==
  /\ pc = "posted" /\ raised = "setter" /\ ret = "raise"
  /\ mon.anySet /\ i = 1
  /\ app.msgq = <<[kind |-> "ERROR"]>>

----------------------------------------------------------------------------
(* Sweep legs of several lengths. *)

\* time_s and update_ms of the ModSteps, in slices: 1, 2, 3 and 4 updates per leg, and
\* a leg shorter than one update interval (1 update).
SweepTimings == {<<1, 1>>, <<2, 1>>, <<3, 1>>, <<4, 1>>, <<1, 2>>, <<2, 2>>, <<4, 2>>}

\* The units of time in 0.001 s of the ModSteps timed in fractions of a millisecond.
UnitsPerMs == 2

\* time_s and update_ms in half milliseconds: 4 ms with an update every 0.5 ms, 0.5 ms
\* with an update every 2 ms, 2 ms with an update every 1 ms.
SubMsTimings == {<<8, 1>>, <<1, 4>>, <<4, 2>>}

\* The step with its times in units of which ms make 0.001 s.
InUnitsOf(step, ms) ==
  [x \in DOMAIN step \cup {"ms"} |-> IF x = "ms" THEN ms ELSE step[x]]

InitSweep ==
  /\ \E d \in {"rise", "fall", "rise-and-fall"}, r \in BOOLEAN :
       steps \in {<<ModStepOf(d, r, c[1], c[2]), FreqStep(10)>> : c \in SweepTimings}
                  \cup {<<InUnitsOf(ModStepOf(d, r, c[1], c[2]), UnitsPerMs), FreqStep(10)>> :
                          c \in SubMsTimings}
  /\ resume \in {None} \cup {ResumeDict(0, ModWithinOf(leg, 1, 2)) : leg \in {"rise", "fall"}}
  /\ dry_run = FALSE
  /\ fixed_wait_seconds = NoneNum
  /\ tick_wait_updates = TRUE
  /\ app = NoApp
  /\ EngineInit

SpecSweep == InitSweep /\ [][NextMod]_vars

----------------------------------------------------------------------------
(* C30: the updates of a sweep leg. *)

\* The engine is inside a sweep leg that began at its first update.
C30_InLeg == pc \in {"mod_k", "mod_sleep", "mod_after"} /\ loc.leg # "" /\ loc.start_k = 0

\* u is max(1, round(t / d)): 1 when the quotient is at most one half, else an
\* integer nearest to it.
C30_IsRounded(u, t, d) ==
  /\ u >= 1
  /\ \/ u = 1 /\ 2 * t <= d
     \/ 2 * Abs(t - u * d) <= d

\* x, and 0.001 s when x is shorter.
C30_AtLeastMs(x) == IF x < Millisecond(Step) THEN Millisecond(Step) ELSE x

\* updates = max(1, round(time_s / (update_ms / 1000))) and a delay of time_s / updates.
C30_UpdatesStated(u) == C30_IsRounded(u, Step.time_s, Step.update_ms)
C30_DelayStated(d, u) == d * u = Step.time_s

\* The same with time_s and the update interval no shorter than 0.001 s.
C30_UpdatesClamped(u) ==
  C30_IsRounded(u, C30_AtLeastMs(Step.time_s), C30_AtLeastMs(Step.update_ms))
C30_DelayClamped(d, u) == d * u = C30_AtLeastMs(Step.time_s)

C30_From == IF loc.leg = "rise" THEN Step.start_hz ELSE Step.end_hz
C30_To == IF loc.leg = "rise" THEN Step.end_hz ELSE Step.start_hz

\* The last update of the leg was the one of index k: its checkpoint carries k and
\* the number of updates u, and its frequency is from + (to - from) * k / u.
C30_LastUpdate(k, u, IsUpdates(_)) ==
  /\ resume_checkpoint.kind = "dict"
  /\ resume_checkpoint.within.kind = "mod"
  /\ resume_checkpoint.within.leg = loc.leg
  /\ resume_checkpoint.within.k = k
  /\ resume_checkpoint.within.updates = u
  /\ IsUpdates(u)
  /\ loc.freq # <<>>
  /\ loc.freq[1].num * u = (C30_From * u + (C30_To - C30_From) * k) * loc.freq[1].den
  /\ k = 0 => loc.freq[1].num = C30_From * loc.freq[1].den
  /\ k = u => loc.freq[1].num = C30_To * loc.freq[1].den

\* In a sweep leg that began at k = 0, the updates issued so far are those of
\* k = 0, 1, ... in order, one per index, each with the mod checkpoint of its k and
\* the frequency from + (to - from) * k / updates (from_hz at k = 0, to_hz at
\* k = updates); a delay has been begun after every update but the last; and when
\* the leg is over without a stop or skip, updates + 1 updates and updates delays
\* have been made.
C30_Updates(IsUpdates(_)) ==
  C30_InLeg =>
    LET u == resume_checkpoint.within.updates IN
    IF pc = "mod_k"
      THEN /\ loc.n_updates = loc.k
           /\ loc.k >= 1 =>
                /\ loc.k <= u + 1
                /\ loc.n_delays = Min(loc.k, u)
                /\ C30_LastUpdate(loc.k - 1, u, IsUpdates)
      ELSE /\ loc.k < u
           /\ loc.n_updates = loc.k + 1
           /\ loc.n_delays = loc.k + 1
           /\ C30_LastUpdate(loc.k, u, IsUpdates)

\* The delay begun after an update of the leg is the one IsDelay tells.
C30_Delays(IsDelay(_, _)) ==
  (C30_InLeg /\ pc = "mod_k" /\ pc' = "mod_sleep") =>
     IsDelay(loc'.slRem, resume_checkpoint'.within.updates)

\* C30 as stated: the leg makes updates + 1 updates for k = 0..updates with
\* updates = max(1, round(time_s / (update_ms / 1000))), each after the mod
\* checkpoint of its k, at from + (to - from) * k / updates, and a delay of
\* time_s / updates after every update but the last.
C30_SweepLegAsStated ==
  [](C30_Updates(C30_UpdatesStated)) /\ [][C30_Delays(C30_DelayStated)]_vars

\* C30: the same with updates = max(1, round(max(0.001, time_s) /
\* max(0.001, update_ms / 1000))) and a delay of max(0.001, time_s) / updates.
C30_SweepLeg ==
  [](C30_Updates(C30_UpdatesClamped)) /\ [][C30_Delays(C30_DelayClamped)]_vars

\* A rise leg of 4 ms with an update asked every 0.5 ms is over: 5 updates, one
\* every millisecond, and 4 delays were made, and the last update set the end
\* frequency.
C30_Witness ==
  /\ pc = "mod_k" /\ loc.leg = "rise" /\ loc.start_k = 0
  /\ Millisecond(Step) = 2 /\ Step.time_s = 8 /\ Step.update_ms = 1
  /\ loc.k = 5 /\ loc.n_updates = 5 /\ loc.n_delays = 4
  /\ loc.freq = <<[num |-> 80, den |-> 4]>>

----------------------------------------------------------------------------
(* One CycleStep with every kind of on_wait, off_wait and wait override. *)

\* on_wait 0 or 2 slices; off_wait absent, 0 or 1 slice.
PointStepPool ==
  {CycleStep(<<Literal(5), CycleRangeSpec(1, 2, 1)>>, on, off) :
     on \in {0, 2}, off \in {NoneNum, Some(0), Some(1)}}

InitPoints ==
  /\ steps \in {<<c>> : c \in PointStepPool}
  /\ resume \in {None} \cup {ResumeDict(0, w) : w \in {v \in CycleWaitPool(steps[1]) :
                                                        v.remaining = 1}}
  /\ dry_run = FALSE
  /\ fixed_wait_seconds \in {NoneNum, Some(0), Some(1)}
  /\ tick_wait_updates = TRUE
  /\ app = NoApp
  /\ EngineInit

SpecPoints == InitPoints /\ [][NextCycle]_vars

----------------------------------------------------------------------------
(* C31: what the engine does for a cycle point. *)

CyclePcs == {"cy_item", "cy_range", "cy_on", "cy_off", "cy_sleep", "cy_after", "cy_end"}

\* The effective value of a wait of the step: 0 when absent or not positive, else the
\* wait override when there is one, else the wait.
C31_Effective(w) ==
  IF w = <<>> THEN 0
  ELSE IF w[1] <= 0 THEN 0
  ELSE IF fixed_wait_seconds # <<>> THEN fixed_wait_seconds[1]
  ELSE w[1]

C31_On == C31_Effective(<<Step.on_wait>>)
C31_Off == C31_Effective(Step.off_wait)

\* What is done for a point that is not the resumed one, in order.
C31_Expected ==
  <<"checkpoint", "frequency">> \o (IF C31_On > 0 THEN <<"on">> ELSE <<>>)
                                \o (IF C31_Off > 0 THEN <<"pause", "off">> ELSE <<>>)

\* The engine is at a point of the CycleStep that it did not resume into.
C31_AtPoint == pc \in CyclePcs /\ loc.points > 0 /\ loc.phase = ""

\* What has been done for the point so far is a beginning of the expected order.
C31_InOrder ==
  C31_AtPoint =>
    /\ Len(loc.acts) <= Len(C31_Expected)
    /\ loc.acts = SubSeq(C31_Expected, 1, Len(loc.acts))

\* pause_hz is written for no point, resumed or not, of a step whose effective
\* off_wait is 0.
C31_NoPause ==
  (pc \in CyclePcs /\ C31_Off = 0) => \A n \in 1..Len(loc.acts) : loc.acts[n] # "pause"

\* The point is visited: the cycle checkpoint of the point is stored, also when the
\* frequency call that follows it raises.
C31_CheckpointFirst ==
  (pc \in {"cy_item", "cy_range"} /\ (loc'.points = loc.points + 1 \/ raised' = "setter")) =>
    /\ resume_checkpoint'.kind = "dict"
    /\ resume_checkpoint'.within.kind = "cycle"
    /\ resume_checkpoint'.within.item_i = loc.item_i
    /\ resume_checkpoint'.within.sub_k = (IF pc = "cy_range" THEN loc.sub_k ELSE 0)
    /\ resume_checkpoint'.within.sub_n = ItemCount(Step.items[loc.item_i + 1])
    /\ mon'.anySet /\ mon'.setStep = i

\* The holds of the point begun with no skip pending last the effective waits; the
\* write of pause_hz is a setter call made at the off hold only.
C31_Holds ==
  /\ (C31_AtPoint /\ pc = "cy_on" /\ pc' # "cy_on" /\ ~skip_wait) =>
        IF C31_On > 0 THEN pc' = "cy_sleep" /\ loc'.hold = "on" /\ loc'.slRem = C31_On
                      ELSE pc' = "cy_off" /\ loc'.acts = loc.acts
  /\ (C31_AtPoint /\ pc = "cy_off" /\ pc' \notin {"cy_off", "finally"} /\ ~skip_wait) =>
        IF C31_Off > 0 THEN pc' = "cy_sleep" /\ loc'.hold = "off" /\ loc'.slRem = C31_Off
                       ELSE pc' \in {"cy_item", "cy_range"} /\ mon' = mon
  /\ (pc = "cy_on" /\ pc' # "cy_on") => mon' = mon

\* The point is over: everything expected was done for it.
C31_Complete ==
  (C31_AtPoint /\ pc \in {"cy_off", "cy_after"} /\ pc' \in {"cy_item", "cy_range"}) =>
    loc'.acts = C31_Expected

\* C31: for every cycle point executed without resume the engine stores the cycle
\* checkpoint of the point, sets its frequency, holds for the effective on_wait if
\* that is > 0, then, only if the effective off_wait is > 0, sets pause_hz and holds
\* for the effective off_wait; with off_wait absent or effectively 0 pause_hz is
\* never written during the step.
C31_PointOrder ==
  /\ [](C31_InOrder /\ C31_NoPause)
  /\ [][C31_CheckpointFirst /\ C31_Holds /\ C31_Complete]_vars

\* The second point of a step with on_wait 2 and off_wait 1 under a wait override of
\* 1 slice is in its off hold of 1 slice, after an on hold, with nothing resumed.
C31_Witness ==
  /\ pc = "cy_sleep" /\ loc.hold = "off" /\ loc.slRem = 1
  /\ resume = None /\ fixed_wait_seconds = <<1>>
  /\ Step.on_wait = 2 /\ Step.off_wait = <<1>>
  /\ loc.points = 2
  /\ loc.acts = <<"checkpoint", "frequency", "on", "pause", "off">>

----------------------------------------------------------------------------
(* The run in which "Next command" is pressed at most once. *)

InitSkip ==
  /\ steps \in SeqsUpTo(StepPool, MaxSteps)
  /\ resume = None
  /\ dry_run \in BOOLEAN
  /\ fixed_wait_seconds = NoneNum
  /\ tick_wait_updates = TRUE
  /\ app = NoApp
  /\ EngineInit

NextSkip ==
  \/ Engine("ok")
  \/ EngineQuiet
  \/ SetStopped
  \/ TogglePause
  \/ SkipOnce

SpecSkip == InitSkip /\ [][NextSkip]_vars

----------------------------------------------------------------------------
(* C32: what one skip request does. *)

AfterPcs == {"wait_after", "cy_after", "mod_after"}

\* The engine takes a step.
C32_EngineStep == pc' # pc \/ loc' # loc \/ i' # i

\* The full duration of the hold that begins.
C32_Full ==
  CASE pc' = "wait_sleep" -> loc'.slRem = Step.seconds
    [] pc' = "cy_sleep" /\ loc'.hold = "on" -> loc'.slRem = Step.on_wait
    [] pc' = "cy_sleep" /\ loc'.hold = "off" -> loc'.slRem = Step.off_wait[1]
    [] pc' = "mod_sleep" ->
         loc'.slRem * resume_checkpoint'.within.updates = Step.time_s

\* With skip_wait not set, a hold that begins is full, a hold ends only when its
\* time is over or on a stop, no hold is left out and no ModStep ends as skipped.
C32_NothingCutWithoutSkip ==
  (~skip_wait /\ C32_EngineStep) =>
    /\ (pc \notin SleepPcs /\ pc' \in SleepPcs) => C32_Full
    /\ (pc \in SleepPcs /\ pc' \notin SleepPcs) => (loc.slRem <= 0 \/ stopped)
    /\ (pc = "step" /\ Step.kind = "WaitStep" /\ ~dry_run /\ ret' = "none") =>
          pc' = "wait_sleep"
    /\ (pc = "cy_on" /\ pc' # pc /\ Step.on_wait > 0) => pc' = "cy_sleep"
    /\ (pc = "cy_off" /\ pc' # pc /\ Step.off_wait # <<>> /\ ret' = "none") =>
          pc' = "cy_sleep"
    /\ (pc \in {"mod_k", "mod_after", "mod_rep"} /\ pc' = "mod_end") =>
          loc'.result # "skipped"

\* skip_wait is cleared only by a WaitStep, a cycle hold or a ModStep; a FreqStep and
\* a StopStep leave it as it is; nothing but the request sets it.
C32_WhoConsumes ==
  /\ (skip_wait /\ ~skip_wait') =>
        \/ pc = "step" /\ Step.kind = "WaitStep"
        \/ pc \in {"cy_on", "cy_off", "mod_rep", "mod_k"} \cup AfterPcs
  /\ (C32_EngineStep /\ pc = "step" /\ Step.kind \in {"FreqStep", "StopStep"}) =>
        skip_wait' = skip_wait
  /\ (~skip_wait /\ skip_wait') => (~mon.skipOnce /\ mon'.skipOnce)

\* A hold of a CycleStep that the skip ended is followed by the next phase or the
\* next point of the same step, and the loop ends unstopped only after the last point.
C32_CycleGoesOn ==
  /\ (pc = "cy_after" /\ pc' # pc) =>
        /\ i' = i /\ ~skip_wait'
        /\ pc' = IF loc.hold = "on" THEN "cy_off"
                 ELSE IF loc.in_range THEN "cy_range" ELSE "cy_item"
  /\ (pc = "cy_item" /\ pc' = "cy_end" /\ ~stopped) => loc.last_point = LastPoint

\* A ModStep that finds skip_wait set, at the head of its repeat loop, before an
\* update or after a delay, ends at once: no further update, result skipped.
C32_ModEnds ==
  (/\ C32_EngineStep /\ skip_wait /\ ~stopped
   /\ \/ pc \in {"mod_rep", "mod_after"}
      \/ pc = "mod_k" /\ loc.k <= sweep_updates(Step)) =>
    /\ pc' = "mod_end" /\ loc'.result = "skipped" /\ ~skip_wait'
    /\ mon'.cut = mon.cut + 1
    /\ loc'.n_updates = loc.n_updates /\ resume_checkpoint' = resume_checkpoint

\* C32: one skip request shortens at most one hold: it stays pending over FreqSteps
\* and StopSteps, the first WaitStep, cycle hold or ModStep that finds it consumes
\* it, that hold or ModStep ends at once, every hold begun or running with
\* skip_wait not set runs its full time; a skipped hold of a CycleStep is followed
\* by the next phase or point; and once a hold was cut and the engine has left it,
\* skip_wait is false.
C32_OneSkipOneHold ==
  /\ [](mon.cut <= 1)
  /\ []((mon.cut = 1 /\ pc \notin AfterPcs) => ~skip_wait)
  /\ [][C32_NothingCutWithoutSkip /\ C32_WhoConsumes /\ C32_CycleGoesOn /\ C32_ModEnds]_vars

\* The request was made during the FreqStep, the on hold of the following CycleStep
\* was left out for it, and the off hold of that point runs its full time.
C32_Witness ==
  /\ pc = "cy_sleep" /\ loc.hold = "off" /\ loc.slRem = 1 /\ loc.points = 1
  /\ steps[1].kind = "FreqStep" /\ i = 1
  /\ mon.skipOnce /\ mon.cut = 1 /\ ~skip_wait /\ ~stopped
  /\ loc.acts = <<"checkpoint", "frequency", "on", "pause", "off">>

----------------------------------------------------------------------------
(* One CycleStep or ModStep with or without adaptive_voltage, on one channel *)
(* or both, with an amplitude in its shared or per-channel options.          *)

\* The options of a row: none; a shared amplitude; shared settings for both channels;
\* a dict for each channel; a dict for channel 2 alone.
AdaptiveOptions ==
  {[amplitude |-> 5],
   [channel |-> "both", waveform |-> "sine", amplitude |-> 5],
   [ch1 |-> [amplitude |-> 5], ch2 |-> [waveform |-> "sine", amplitude |-> 3]],
   [ch2 |-> [amplitude |-> 5]]}

AdaptiveStepPool ==
  LET plain == {CycleStep(<<Literal(5), CycleRangeSpec(1, 2, 1)>>, 1, Some(1)),
                CycleStep(<<Literal(5), Literal(7)>>, 0, NoneNum),
                ModStep("rise-and-fall", FALSE), ModStep("rise", TRUE)}
      flagged == plain \cup {[s EXCEPT !.adaptive_voltage = TRUE] : s \in plain}
  IN  flagged \cup {WithOptions(s, o) : s \in flagged, o \in AdaptiveOptions}

InitAdaptive ==
  /\ steps \in {<<s>> : s \in AdaptiveStepPool}
  /\ resume = None
  /\ dry_run = FALSE
  /\ fixed_wait_seconds = NoneNum
  /\ tick_wait_updates = TRUE
  /\ app = NoApp
  /\ EngineInit

EngineAdaptive(f) == EngineCycle(f) \/ ModBegin(f) \/ SweepUpdate(f) \/ ModEnd(f)

NextAdaptive ==
  \/ \E f \in FaultsCycle : EngineAdaptive(f)
  \/ EngineCycleQuiet \/ ModRepeat \/ ModAfter
  \/ Caller

SpecAdaptive == InitAdaptive /\ [][NextAdaptive]_vars

----------------------------------------------------------------------------
(* C33: adaptive voltage replaces the static amplitude. *)

\* The channels on which the calls named call, among the calls given, were made.
C33_Channels(calls, call) ==
  {calls[n].channel : n \in {m \in 1..Len(calls) : calls[m].call = call}}

\* The frequency calls that open a sequence of calls: one frequency update.
C33_Update(calls) ==
  LET others == {n \in 1..Len(calls) : calls[n].call # "set_frequency"}
  IN  IF others = {} THEN calls
      ELSE SubSeq(calls, 1, (CHOOSE n \in others : \A m \in others : n <= m) - 1)

\* The calls after the update and before the next set_frequency call.
C33_Following(calls) ==
  LET rest == SubSeq(calls, Len(C33_Update(calls)) + 1, Len(calls))
      next == {n \in 1..Len(rest) : rest[n].call = "set_frequency"}
  IN  IF next = {} THEN rest
      ELSE SubSeq(rest, 1, (CHOOSE n \in next : \A m \in next : n <= m) - 1)

\* The engine has issued the frequency update of a cycle point or of a sweep index.
C33_Updated ==
  \/ pc \in {"cy_on", "cy_off", "cy_sleep", "cy_after"} /\ loc.points > 0
  \/ pc \in {"mod_k", "mod_sleep", "mod_after"} /\ loc.n_updates > 0

\* The static-settings pass of a step with adaptive_voltage sends no amplitude.
C33_NoStaticAmplitude ==
  (mon.staticStep >= 0 /\ steps[mon.staticStep + 1].adaptive_voltage) =>
    "set_amplitude" \notin {mon.static[n].call : n \in 1..Len(mon.static)}

\* The update is followed by set_amplitude on each of its channels, before the
\* next frequency call.
C33_AmplitudeFollows ==
  (C33_Updated /\ Step.adaptive_voltage) =>
    /\ C33_Update(loc.calls) # <<>>
    /\ C33_Channels(C33_Following(loc.calls), "set_amplitude")
         = C33_Channels(C33_Update(loc.calls), "set_frequency")

\* Without adaptive_voltage no amplitude comes with a frequency.
C33_NoneDerived ==
  (C33_Updated /\ ~Step.adaptive_voltage) => C33_Channels(loc.calls, "set_amplitude") = {}

\* C33: with adaptive_voltage true for a CycleStep or ModStep, an amplitude in the
\* options, shared or per channel, is never sent by the static-settings pass, and
\* every frequency update of a cycle point or of a sweep index is followed, before
\* the next frequency update, by set_amplitude on each of the same channels; with
\* adaptive_voltage false no set_amplitude is derived from the frequency.
C33_AdaptiveVoltage ==
  C33_NoStaticAmplitude /\ C33_AmplitudeFollows /\ C33_NoneDerived

\* An adaptive CycleStep on both channels, with an amplitude for each in its options,
\* has written pause_hz after the update of a point; the static-settings pass sent
\* the waveform alone.
C33_Witness ==
  /\ pc = "cy_sleep"
  /\ Step.adaptive_voltage
  /\ "ch1" \in DOMAIN OptionsOf(Step)
  /\ loc.hold = "off"
  /\ Len(loc.calls) = 6
  /\ mon.static = <<[call |-> "set_waveform", channel |-> 2]>>

----------------------------------------------------------------------------
(* The text of a command file (commands.py:431-461): its lines are split,   *)
(* the dialect is sniffed and csv.reader turns the lines into the rows that *)
(* parse_csv_commands numbers from 1.                                       *)

\* A line of the text: the row it holds, the number of delimiters in it, and whether
\* it is a line that holds a double quote and nothing else.
Line(row, delims) == [row |-> row, delims |-> delims, quote |-> FALSE]
QuoteLine == [row |-> Row("?", <<>>), delims |-> 0, quote |-> TRUE]

\* A blank line, a comment, a line whose first cell is empty, and lines of steps.
LinePool ==
  {Line(Row("", <<>>), 0),
   Line(Row("# note", <<>>), 0),
   Line(Row("", <<Word("x")>>), 1),
   Line(Row("stop", <<>>), 0),
   Line(Row("wait", <<Num(1)>>), 1),
   Line(Row("freq", <<Num(0)>>), 1),
   Line(Row("freq", <<ListTok(<<Num(1), Num(2)>>)>>), 2),
   QuoteLine}

\* The longest text that is read.
MaxLines == 5

IsBlankLine(line) == ~line.quote /\ line.row = Row("", <<>>)

\* commands.py:439-457: csv.Sniffer().sniff on a text of fewer than ten lines finds
\* a delimiter when every line that is not blank holds the same number of it, at
\* least one; the rows are then read with quoting disabled. When it finds none the
\* "excel" dialect, which quotes, is used.
sniff(text) ==
  LET full == {n \in 1..Len(text) : ~IsBlankLine(text[n])}
  IN  IF /\ full # {}
         /\ \A n \in full : text[n].delims > 0
         /\ \A n, m \in full : text[n].delims = text[m].delims
        THEN "loose" ELSE "excel"

\* The line after the quoted field that the line at index n opens: the quote is
\* closed by the next line that holds a quote, or by the end of the text.
QuotedEnd(text, n) ==
  LET closing == {m \in (n + 1)..Len(text) : text[m].quote}
  IN  IF closing = {} THEN Len(text) + 1
      ELSE (CHOOSE m \in closing : \A k \in closing : m <= k) + 1

\* The row of a quoted field spread over the lines n..(e - 1): one cell, the text of
\* the lines between the quotes put together.
QuotedRow(text, n, e) ==
  LET inside == SelectSeq(SubSeq(text, n + 1, e - 1),
                          LAMBDA l : ~l.quote /\ ~IsBlankLine(l))
  IN  IF inside = <<>> THEN Row("", <<>>)
      ELSE IF inside[1].row.cmd = "# note" THEN Row("# note", <<>>)
      ELSE IF Len(inside) = 1 /\ inside[1].delims = 0 THEN inside[1].row
      ELSE Row("?", <<>>)

\* csv.reader reading every line as a row of its own.
RECURSIVE csv_reader_LineByLine(_, _, _)
csv_reader_LineByLine(text, dialect, n) ==
  IF n > Len(text) THEN <<>>
  ELSE <<text[n].row>> \o csv_reader_LineByLine(text, dialect, n + 1)

\* commands.py:458: csv.reader(text.splitlines(), dialect): a line is a row, but
\* with the quoting dialect a line that opens a quoted field is one row with the
\* lines after it, up to the line that closes the quote.
RECURSIVE csv_reader(_, _, _)
csv_reader(text, dialect, n) ==
  IF n > Len(text) THEN <<>>
  ELSE IF text[n].quote /\ dialect = "excel"
    THEN <<QuotedRow(text, n, QuotedEnd(text, n))>>
           \o csv_reader(text, dialect, QuotedEnd(text, n))
  ELSE <<text[n].row>> \o csv_reader(text, dialect, n + 1)

InitLines ==
  /\ \E text \in SeqsUpTo(LinePool, MaxLines) : loc = [text |-> text, rows |-> <<>>,
                                                       raw_steps |-> <<>>, error |-> None]
  /\ steps = <<>>
  /\ resume = None /\ dry_run = TRUE /\ fixed_wait_seconds = NoneNum
  /\ tick_wait_updates = TRUE /\ app = NoApp
  /\ paused = FALSE /\ stopped = FALSE /\ skip_wait = FALSE
  /\ resume_checkpoint = None
  /\ pc = "read" /\ i = 0 /\ resume_within = None
  /\ fg = "none" /\ ret = "none" /\ rc = -1 /\ raised = "none"
  /\ log = <<>> /\ mon = MonInit

\* commands.py:434-458: the text is read and split into rows.
ReadText ==
  /\ pc = "read"
  /\ loc' = [loc EXCEPT !.rows = csv_reader(loc.text, sniff(loc.text), 1)]
  /\ pc' = "parse"
  /\ UNCHANGED <<inputVars, flagVars, resume_checkpoint, i, resume_within, fg, ret, rc,
                 raised, log, mon>>

NextLines == ReadText \/ ParseRow \/ Expand \/ Reexpand
SpecLines == InitLines /\ [][NextLines]_vars

----------------------------------------------------------------------------
(* C34: source_line is the line of the text. *)

\* The step is one that the line, read at the step's source_line, compiles to.
C34_CompilesTo(line, step) ==
  /\ ~line.quote
  /\ LET r == parse_row(line.row, step.source_line)
     IN  /\ r.ok
         /\ \E n \in 1..Len(_expand_steps(r.raw)) : _expand_steps(r.raw)[n] = step

\* A row that is blank, has an empty first cell or is a comment gives no step and
\* is counted.
C34_SkippedRowCounts ==
  (pc = "parse" /\ i < Len(loc.rows) /\ is_skipped(loc.rows[i + 1])) =>
    (i' = i + 1 /\ pc' = "parse" /\ loc'.raw_steps = loc.raw_steps)

\* The compiled steps stay as they are.
C34_Frozen == pc \in {"parsed", "reexpanded"} => steps' = steps

\* C34: rows that are blank, have an empty first cell or start with # produce no
\* step and count in the line numbering; the source_line of every compiled step is
\* the 1-based number of the line of the text it came from (for the steps of a
\* legacy expansion the line of the list or of the replayed row); the steps do not
\* change after compilation.
C34_SourceLineIsPhysical ==
  /\ [](pc \in {"parsed", "reexpanded"} =>
          \A n \in 1..Len(steps) :
            /\ steps[n].source_line \in 1..Len(loc.text)
            /\ C34_CompilesTo(loc.text[steps[n].source_line], steps[n]))
  /\ [][C34_SkippedRowCounts]_vars
  /\ [][C34_Frozen]_vars

----------------------------------------------------------------------------
(* The run with an on_checkpoint that is absent, or present and at every    *)
(* call of _set_checkpoint called, left out because less than 0.2 s have    *)
(* passed since it was last called, or called and raising.                  *)

FaultsObserver == {"ok", "on_checkpoint", "throttled"}

InitObserver ==
  /\ steps \in SeqsUpTo(StepPool, MaxStepsCb)
  /\ resume \in ResumePool(steps)
  /\ dry_run = FALSE
  /\ fixed_wait_seconds = NoneNum
  /\ tick_wait_updates = TRUE
  /\ app \in {Observer(TRUE), Observer(FALSE)}
  /\ EngineInit

NextObserver == (\E f \in FaultsObserver : Engine(f)) \/ EngineQuiet \/ Caller
SpecObserver == InitObserver /\ [][NextObserver]_vars

----------------------------------------------------------------------------
(* C35: the stored checkpoint does not depend on on_checkpoint. *)

\* The step is a call of _set_checkpoint; the step is a call of on_checkpoint.
C35_Emission == mon'.emitBit # mon.emitBit
C35_Notification == mon'.giveBit # mon.giveBit

\* Every call stores its dict, whatever becomes of on_checkpoint.
C35_EmissionStores == C35_Emission => <<resume_checkpoint'>> = mon'.lastEmitted

\* state.resume_checkpoint changes only by a call or by being cleared.
C35_OnlyStoredOrCleared ==
  resume_checkpoint' # resume_checkpoint => (C35_Emission \/ resume_checkpoint' = None)

\* on_checkpoint is called only in a call of _set_checkpoint, with the dict stored.
C35_GivenIsStored ==
  C35_Notification =>
    (C35_Emission /\ app.on_checkpoint /\ mon'.lastGiven = <<resume_checkpoint'>>)

\* C35: state.resume_checkpoint is written at every emission of a checkpoint, whether
\* on_checkpoint is absent, throttled or raises: it is at any time the checkpoint
\* emitted last, or None after the engine cleared it; on_checkpoint receives only
\* checkpoints that were stored, in their order.
C35_StoredRegardless ==
  /\ [](resume_checkpoint = None \/ <<resume_checkpoint>> = mon.lastEmitted)
  /\ [](mon.notified => app.on_checkpoint)
  /\ [][C35_EmissionStores /\ C35_OnlyStoredOrCleared /\ C35_GivenIsStored]_vars

\* During a wait the last tick's checkpoint is stored although on_checkpoint was
\* not called with it, an earlier call of it having raised.
C35_Witness ==
  /\ pc = "wait_sleep"
  /\ app.on_checkpoint
  /\ mon.lastGiven # mon.lastEmitted
  /\ <<resume_checkpoint>> = mon.lastEmitted
  /\ resume_checkpoint.within # None
  /\ "on_checkpoint" \in mon.swallowed

----------------------------------------------------------------------------
(* The run with one pause request that is never cleared, no stop and no     *)
(* skip: steps of every kind, among them a CycleStep without holds.         *)

PauseStepPool ==
  StepPool \cup {CycleStep(<<Literal(5), CycleRangeSpec(1, 3, 1)>>, 0, NoneNum),
                 CycleStep(<<Literal(5), Literal(7)>>, 0, Some(1))}

InitPause ==
  /\ steps \in SeqsUpTo(PauseStepPool, MaxSteps)
  /\ resume = None
  /\ dry_run = FALSE
  /\ fixed_wait_seconds \in {NoneNum, Some(0)}
  /\ tick_wait_updates = TRUE
  /\ app = NoApp
  /\ EngineInit

NextPause == Engine("ok") \/ EngineQuiet \/ PauseOnce
SpecPause == InitPause /\ [][NextPause]_vars

----------------------------------------------------------------------------
(* C36: how much the engine does after a pause request. *)

\* C36: once paused is set and stays set, with no stop and no skip request, the
\* engine begins at most one further step, at most one further cycle point and at
\* most one further sweep update before it blocks, also in a CycleStep whose
\* effective on_wait and off_wait are both 0.
C36_PauseBoundsWork ==
  mon.pauseWatch => (mon.work.steps <= 1 /\ mon.work.points <= 1 /\ mon.work.updates <= 1)

----------------------------------------------------------------------------
(* C37: the run that the auto-resume starts paused. *)

\* The worker of a run started by the auto-resume, whose paused flag the Pause
\* button has not cleared.
C37_StartedPaused ==
  /\ app.kind = "App" /\ app.auto /\ ~mon.unpaused
  /\ pc \notin {"idle", "killed"}

\* Such a run makes no setter call, stopped or not.
C37_NoSetter == C37_StartedPaused => ~mon.anySet

\* It gets as far as the pause gate of the resume step, with the boundary checkpoint
\* stored and the progress of that step reported, or returns.
C37_AtGate ==
  C37_StartedPaused =>
    /\ pc \in {"start", "boundary", "stopchk1", "gate", "stopchk2", "finally",
               "returned", "posted"}
    /\ i = ResumeIndexOf(resume)
    /\ pc = "gate" => /\ resume_checkpoint = _set_checkpoint(i, Step, None)
                      /\ mon.progressed = i

\* If it returns, a stop request ended it: 4, with no checkpoint left.
C37_StoppedReturns4 ==
  (C37_StartedPaused /\ pc \in {"returned", "posted"}) =>
    (stopped /\ ret = "return" /\ rc = 4 /\ resume_checkpoint = None)

\* While paused is set and stopped is not, the engine stays at the gate.
C37_Blocks ==
  (C37_StartedPaused /\ pc = "gate" /\ paused /\ ~stopped) => pc' \in {"gate", "killed"}

\* C37: a run started with paused true (the auto-resume of the GUI) issues no setter
\* call until paused becomes false: it stores the boundary checkpoint, reports the
\* progress of the resume step and blocks at the pause gate; a stop request while it
\* is blocked makes it return 4 without any setter call.
C37_PausedStart ==
  /\ [](C37_NoSetter /\ C37_AtGate /\ C37_StoppedReturns4)
  /\ [][C37_Blocks]_vars

\* The run started paused has been stopped at the gate and has returned.
C37_Witness ==
  /\ pc = "returned"
  /\ C37_StartedPaused
  /\ mon.stopAt = "gate"
  /\ rc = 4
  /\ mon.progressed = i

----------------------------------------------------------------------------
(* The engine thread under fair scheduling: whenever run_sequence can take  *)
(* a step it eventually takes one; the device calls return. The caller may  *)
(* stop, pause and skip at any time, and never clears stopped.              *)

\* Steps with a repeating ModStep and a cycle over a range.
StopStepPool ==
  {FreqStep(10), WaitStep(2),
   CycleStep(<<CycleRangeSpec(1, 3, 1)>>, 1, Some(1)),
   CycleStep(<<CycleRangeSpec(1, 3, 1)>>, 0, NoneNum),
   ModStep("rise-and-fall", TRUE)}

InitStop ==
  /\ steps \in SeqsUpTo(StopStepPool, MaxSteps)
  /\ resume = None
  /\ dry_run = FALSE
  /\ fixed_wait_seconds = NoneNum
  /\ tick_wait_updates = TRUE
  /\ app = NoApp
  /\ EngineInit

EngineStop(f) ==
  \/ Connect(f) \/ BoundaryCheckpoint(f) \/ StopCheck1(f) \/ StopCheck2(f)
  \/ LoopEnd(f) \/ Finally(f) \/ DoFreq(f) \/ WaitBegin(f) \/ SleepPoll(f)
  \/ CycleBegin(f) \/ CycleItem(f) \/ CycleRange(f) \/ CycleOff(f) \/ CycleEnd(f)
  \/ ModBegin(f) \/ SweepUpdate(f) \/ ModEnd(f)

NextStop == EngineStop("ok") \/ EngineQuiet \/ Caller
SpecStop == InitStop /\ [][NextStop]_vars
SpecStopFair == SpecStop /\ WF_vars(EngineStop("ok") \/ EngineQuiet)

----------------------------------------------------------------------------
(* C38: a stop request ends the run. *)

\* C38: if stopped becomes true while run_sequence is active, then under fair
\* scheduling of the engine thread run_sequence eventually returns, whether or not
\* paused is set (it need not be cleared) and whether or not the current or a later
\* step is a repeating ModStep or a cycle over a range.
C38_StopTerminates == stopped ~> (pc = "returned")

\* The run was stopped inside the delay of a repeating ModStep and has returned with
\* paused still set.
C38_Witness ==
  /\ pc = "returned"
  /\ stopped /\ paused
  /\ mon.stopAt = "mod_sleep"
  /\ steps[1].kind = "ModStep" /\ steps[1].repeat

----------------------------------------------------------------------------
(* The run whose sleeps are timed: from step 0, no pause, stop or skip, no *)
(* repeat=true ModStep, with and without the fixed-wait override, on the    *)
(* device or as a dry run. The times of a sequence are all in one unit:     *)
(* slices, or 1/UnitsPerMs of 0.001 s in the sequences with a ModStep       *)
(* shorter than 0.001 s.                                                    *)

ClockStepPool ==
  {FreqStep(10), StopStep, WaitStep(0), WaitStep(2),
   CycleStep(<<Literal(5), CycleRangeSpec(1, 3, 1)>>, 2, NoneNum),
   CycleStep(<<Literal(5), Literal(7)>>, 0, Some(1)),
   ModStepOf("rise-and-fall", FALSE, 2, 1), ModStepOf("rise", FALSE, 1, 2)}

ClockSubMsPool ==
  {FreqStep(10), WaitStep(2),
   CycleStep(<<Literal(5), Literal(7)>>, 1, Some(1)),
   InUnitsOf(ModStepOf("rise-and-fall", FALSE, 1, 4), UnitsPerMs),
   InUnitsOf(ModStepOf("rise", FALSE, 1, 2), UnitsPerMs),
   InUnitsOf(ModStepOf("fall", FALSE, 4, 2), UnitsPerMs)}

InitClock ==
  /\ steps \in SeqsUpTo(ClockStepPool, MaxSteps) \cup SeqsUpTo(ClockSubMsPool, MaxSteps)
  /\ resume = None
  /\ dry_run \in BOOLEAN
  /\ fixed_wait_seconds \in {NoneNum, Some(0), Some(1)}
  /\ tick_wait_updates = TRUE
  /\ app = Clock
  /\ EngineInit

EngineClock(f) ==
  \/ Connect(f) \/ BoundaryCheckpoint(f) \/ StopCheck1(f) \/ StopCheck2(f)
  \/ LoopEnd(f) \/ Finally(f) \/ DoFreq(f) \/ DoStop(f) \/ WaitBegin(f) \/ SleepPoll(f)
  \/ CycleBegin(f) \/ CycleItem(f) \/ CycleRange(f) \/ CycleOff(f) \/ CycleEnd(f)
  \/ ModBegin(f) \/ SweepUpdate(f) \/ ModEnd(f)

EngineClockQuiet == PauseGate \/ WaitAfter \/ CycleOn \/ CycleAfter \/ ModAfter

NextClock == EngineClock("ok") \/ EngineClockQuiet
SpecClock == InitClock /\ [][NextClock]_vars

----------------------------------------------------------------------------
(* C39: the estimate against the time the engine sleeps. *)

\* The estimate on_progress is given at the boundary of step n.
C39_Estimate(n) == estimate_remaining_run_time(steps, n, fixed_wait_seconds)

\* The engine stands between two steps, or has returned after the last one.
C39_AtBoundary ==
  \/ pc \in {"boundary", "stopchk1", "gate"}
  \/ pc = "returned" /\ rc = 0 /\ i = Len(steps)

\* How much longer than its time_s the legs of the ModSteps before step n last.
RECURSIVE C39_Clamped(_)
C39_Clamped(n) ==
  IF n = 0 THEN 0
  ELSE LET s == steps[n]
       IN  C39_Clamped(n - 1)
           + (IF s.kind = "ModStep"
                THEN (IF s.direction = "rise-and-fall" THEN 2 ELSE 1)
                     * (Max(Millisecond(s), s.time_s) - s.time_s)
                ELSE 0)

\* No ModStep of the sequence has a time_s below 0.001 s.
C39_NoShortLeg ==
  \A n \in 1..Len(steps) : steps[n].kind = "ModStep" => steps[n].time_s >= Millisecond(steps[n])

\* The estimates of the boundaries never increase.
C39_NeverIncreases ==
  \A n \in 0..(Len(steps) - 1) : C39_Estimate(n + 1) <= C39_Estimate(n)

\* C39 as stated: in a run from step 0 without pause, stop, skip, resume or a
\* repeat=true ModStep, the durations slept before the boundary of step i are the
\* estimate of the whole run less the estimate reported at that boundary, so the
\* whole run sleeps estimate_remaining_run_time(steps, 0, fixed_wait); and the
\* reported estimate never increases.
C39_EstimatorAgreesAsStated ==
  /\ C39_AtBoundary => mon.slept = C39_Estimate(0) - C39_Estimate(i)
  /\ C39_NeverIncreases

\* C39, amended: the same holds in a run on the device when no ModStep has a
\* time_s below 0.001 s; a leg of a shorter ModStep sleeps 0.001 s while the
\* estimate counts its time_s, so in general the durations slept exceed the
\* estimated ones by what the legs of the ModSteps already run were lengthened by;
\* a dry run sleeps nothing.
C39_EstimatorAgrees ==
  /\ (C39_AtBoundary /\ ~dry_run)
       => mon.slept = C39_Estimate(0) - C39_Estimate(i) + C39_Clamped(i)
  /\ (C39_AtBoundary /\ ~dry_run /\ C39_NoShortLeg)
       => mon.slept = C39_Estimate(0) - C39_Estimate(i)
  /\ dry_run => mon.slept = 0
  /\ C39_NeverIncreases

\* A run of two steps with holds, under the override, has returned having slept
\* what was estimated.
C39_Witness ==
  /\ pc = "returned"
  /\ rc = 0
  /\ ~dry_run
  /\ Len(steps) = 2
  /\ steps[1].kind = "CycleStep"
  /\ steps[2].kind = "ModStep"
  /\ C39_NoShortLeg
  /\ fixed_wait_seconds = Some(1)
  /\ mon.slept = C39_Estimate(0)
  /\ mon.slept > C39_Estimate(1)
  /\ C39_Estimate(1) > 0

----------------------------------------------------------------------------
(* The dry run: run_sequence(dry_run=True) (src/run_cli.py --dry-run), fresh *)
(* or resumed, with stop, pause and skip set by the caller at any moment.    *)

InitDry ==
  /\ steps \in SeqsUpTo(StepPool, MaxSteps)
  /\ resume \in ResumePool(steps)
  /\ dry_run = TRUE
  /\ fixed_wait_seconds \in {NoneNum, Some(0)}
  /\ tick_wait_updates = TRUE
  /\ app = NoApp
  /\ EngineInit

EngineDry(f) ==
  \/ Connect(f) \/ BoundaryCheckpoint(f) \/ StopCheck1(f) \/ StopCheck2(f)
  \/ LoopEnd(f) \/ Finally(f) \/ DoFreq(f) \/ DoStop(f) \/ WaitBegin(f)
  \/ CycleBegin(f) \/ ModBegin(f)

NextDry == EngineDry("ok") \/ PauseGate \/ Caller
SpecDry == InitDry /\ [][NextDry]_vars

----------------------------------------------------------------------------
(* C40: what a dry run does and leaves alone. *)

\* No device object, no device call.
C40_NoDevice ==
  /\ fg = "none"
  /\ ~mon.anySet /\ mon.setStep = -1
  /\ mon.set_channels = <<>> /\ mon.static = <<>>
  /\ mon.closeN = 0
  /\ mon.lastStatus # "Connected"

\* No hold of a WaitStep or CycleStep, no delay of a ModStep, nothing of a
\* CycleStep's points or a ModStep's sweep.
C40_NoSleep ==
  /\ pc \in {"start", "boundary", "stopchk1", "gate", "stopchk2", "step", "finally", "returned"}
  /\ loc = LocInit

\* The steps reported so far are the steps from the resume index on, in order,
\* each once.
C40_Visited ==
  /\ Len(log) = i - resume_step_index
  /\ \A k \in 1..Len(log) :
       log[k] = [ev |-> steps[resume_step_index + k].kind, i |-> resume_step_index + k - 1]

\* Progress is reported for the step before its report, and the run that returns 0
\* has reported every step.
C40_Reported ==
  /\ pc \in {"gate", "stopchk2", "step"} => mon.progressed = i
  /\ pc = "step" => mon.lastStatus # "Stopped."
  /\ (pc = "returned" /\ rc = 0) => (i = Len(steps) /\ mon.lastStatus = "Done.")

\* The run returns 0 or 4, 4 only when stopped, with the checkpoint cleared.
C40_Returns ==
  pc = "returned" => /\ ret = "return" /\ raised = "none"
                     /\ rc \in {0, 4}
                     /\ rc = 4 => stopped
                     /\ resume_checkpoint = None

\* A step of the engine: progress is reported once for a step, by the first stop
\* check; the gate is not left while paused and not stopped; a stop check that
\* finds stopped returns 4; a step is left for the boundary of the next one.
C40_EngineStep ==
  (pc' # pc \/ i' # i) =>
    /\ mon'.progressed # mon.progressed
         => (pc = "stopchk1" /\ mon.progressed < i /\ mon'.progressed = i)
    /\ pc = "gate" => (~paused \/ stopped)
    /\ (pc \in {"stopchk1", "stopchk2"} /\ stopped) => (pc' = "finally" /\ rc' = 4)
    /\ pc = "step" => (pc' = "boundary" /\ i' = i + 1 /\ Len(log') = Len(log) + 1)

\* C40: with dry_run = true the engine creates no device object, issues no device
\* call and performs no wait, cycle or mod sleep for any step kind; it visits every
\* step from the resume index in order, reports status and progress once per step,
\* honours the pause gate and a stop request at the step boundaries, and returns 0
\* or 4 with resume_checkpoint cleared.
C40_DryRun ==
  /\ [](C40_NoDevice /\ C40_NoSleep /\ C40_Visited /\ C40_Reported /\ C40_Returns)
  /\ [][C40_EngineStep]_vars

\* A dry run of a repeat=true ModStep and a WaitStep has reported both and returned
\* 0 with the checkpoint cleared, paused having been set on the way.
C40_Witness ==
  /\ pc = "returned"
  /\ rc = 0
  /\ dry_run
  /\ Len(steps) = 2
  /\ steps[1].kind = "ModStep" /\ steps[1].repeat
  /\ steps[2].kind = "WaitStep"
  /\ resume = None
  /\ Len(log) = 2
  /\ mon.progressed = 1
  /\ resume_checkpoint = None
  /\ paused

====
